---------------------------- MODULE Spec2Model ----------------------------
(***************************************************************************)
(* A model of the resume tailoring engine: skill extraction from a job     *)
(* description, evidence matching and ATS scoring, patch suggestion, the   *)
(* truth guardrail, truth validation and patch application.                *)
(*                                                                         *)
(* Texts are TLA+ strings and are handled character by character, so that  *)
(* lower(), strip(), splitlines(), substring tests and the regular         *)
(* expressions of the source are modelled by what they do.  An Optional    *)
(* integer is a sequence of length at most one (<<>> is None); an Optional *)
(* string that the source only ever uses as `x or ""` / `if x:` is "" for  *)
(* None.                                                                   *)
(***************************************************************************)
EXTENDS Integers, Sequences, FiniteSets, TLC

VARIABLES
    resume,     \* the latest stored ResumeState of the resume (load_latest_state)
    initial,    \* history: the ResumeState the behaviour started with
    versions,   \* number of resume versions appended so far
    overrides_file, \* the stored overrides file: [present, skills]
    req,        \* the request served last
    resp        \* the response (or error) returned last

vars == <<resume, initial, versions, overrides_file, req, resp>>

-----------------------------------------------------------------------------
(* Characters and strings                                                  *)

UpperChars == "ABCDEFGHIJKLMNOPQRSTUVWXYZ"
LowerChars == "abcdefghijklmnopqrstuvwxyz"
DigitChars == "0123456789"

Ch(s, i) == SubSeq(s, i, i)

CharSet(s) == {Ch(s, i) : i \in 1..Len(s)}

UpperSet == CharSet(UpperChars)

\* \w of the re module, on ASCII text
WordChars == CharSet(UpperChars \o LowerChars \o DigitChars \o "_")

\* the class [A-Za-z0-9+.#-] / [A-Za-z0-9+#.-]
TokenChars == CharSet(UpperChars \o LowerChars \o DigitChars \o "+.#-")

SpaceChars == {" ", "\t", "\n", "\r"}

LowerOf == [c \in UpperSet |->
              Ch(LowerChars, CHOOSE i \in 1..Len(UpperChars) : Ch(UpperChars, i) = c)]

LowerCh(c) == IF c \in UpperSet THEN LowerOf[c] ELSE c

RECURSIVE Lower(_)
\* str.lower()
Lower(s) == IF s = "" THEN "" ELSE LowerCh(Ch(s, 1)) \o Lower(SubSeq(s, 2, Len(s)))

RECURSIVE LStrip(_)
LStrip(s) == IF s # "" /\ Ch(s, 1) \in SpaceChars THEN LStrip(SubSeq(s, 2, Len(s))) ELSE s

RECURSIVE RStrip(_)
RStrip(s) == IF s # "" /\ Ch(s, Len(s)) \in SpaceChars
             THEN RStrip(SubSeq(s, 1, Len(s) - 1)) ELSE s

\* str.strip()
Strip(s) == RStrip(LStrip(s))

\* `sub in text`
Contains(text, sub) ==
    \E i \in 1..(Len(text) - Len(sub) + 1) : SubSeq(text, i, i + Len(sub) - 1) = sub

RECURSIVE SplitLines(_)
\* str.splitlines(), for texts whose only line break is "\n"
SplitLines(s) ==
    IF s = "" THEN <<>>
    ELSE LET brk == {i \in 1..Len(s) : Ch(s, i) = "\n"}
         IN IF brk = {} THEN <<s>>
            ELSE LET p == CHOOSE i \in brk : \A j \in brk : i <= j
                 IN <<SubSeq(s, 1, p - 1)>> \o SplitLines(SubSeq(s, p + 1, Len(s)))

IsWordAt(s, i) == i >= 1 /\ i <= Len(s) /\ Ch(s, i) \in WordChars

\* \b between positions p-1 and p of s
WordBoundary(s, p) == IsWordAt(s, p - 1) # IsWordAt(s, p)

\* re.search(r"(?<!\w)" + re.escape(token) + r"(?!\w)", text, re.IGNORECASE)
has_token(text, token) ==
    /\ token # ""
    /\ LET t == Lower(text)
           k == Lower(token)
           n == Len(k)
       IN \E i \in 1..(Len(t) - n + 1) :
              /\ SubSeq(t, i, i + n - 1) = k
              /\ ~IsWordAt(t, i - 1)
              /\ ~IsWordAt(t, i + n)

Max(S) == CHOOSE x \in S : \A y \in S : y <= x

\* where the match of \b[A-Z][A-Za-z0-9+.#-]{2,}\b that starts at i ends, 0 if none
CapsMatchEnd(s, i) ==
    IF ~(Ch(s, i) \in UpperSet /\ WordBoundary(s, i)) THEN 0
    ELSE LET run == Max({j \in i..Len(s) : \A k \in (i + 1)..j : Ch(s, k) \in TokenChars})
             ends == {e \in (i + 2)..run : WordBoundary(s, e + 1)}
         IN IF ends = {} THEN 0 ELSE Max(ends)

RECURSIVE CapsTokens(_, _)
\* re.findall(r"\b[A-Z][A-Za-z0-9+.#-]{2,}\b", s), scanning from position i
CapsTokens(s, i) ==
    IF i > Len(s) THEN <<>>
    ELSE LET e == CapsMatchEnd(s, i)
         IN IF e = 0 THEN CapsTokens(s, i + 1)
            ELSE <<SubSeq(s, i, e)>> \o CapsTokens(s, e + 1)

InSeq(x, s) == \E i \in 1..Len(s) : s[i] = x


-----------------------------------------------------------------------------
(* Skill lexicon.  The dictionary and the synonym table are the source's,  *)
(* restricted to the entries the texts of this model mention, in the       *)
(* source's order; the must-have list is the source's, whole.              *)

SKILL_DICTIONARY == <<"SQL", "Python", "DBT", "Tableau", "Kubernetes", "MySQL">>

SYNONYMS(key) ==
    CASE key = "dbt" -> <<"data build tool", "data build tools">>
      [] key = "sql" -> <<"structured query language">>
      [] key = "kubernetes" -> <<"k8s">>
      [] OTHER -> <<>>

MUST_HAVE_DOMAINS ==
    <<"mqtt", "opc ua", "opc-ua", "opcua", "modbus", "bacnet", "scada", "mes",
      "historian", "pi", "osisoft", "ignition", "plc", "iiot", "ot", "influxdb",
      "timescaledb", "opc">>

SECTION_REQUIRED == {"required", "requirements", "must have", "must-have", "qualifications"}
SECTION_PREFERRED == {"preferred", "nice to have", "nice-to-have", "preferred qualifications"}
SECTION_RESP == {"responsibilities", "responsibility"}

RECURSIVE DedupeExactLoop(_, _, _, _)
DedupeExactLoop(values, i, seen, out) ==
    IF i > Len(values) THEN out
    ELSE IF values[i] \in seen THEN DedupeExactLoop(values, i + 1, seen, out)
    ELSE DedupeExactLoop(values, i + 1, seen \cup {values[i]}, Append(out, values[i]))

\* the dedupe that compares the items as written, not lowercased
dedupe_case_sensitive(values) == DedupeExactLoop(values, 1, {}, <<>>)

RECURSIVE DedupeLoop(_, _, _, _)
DedupeLoop(values, i, seen, out) ==
    IF i > Len(values) THEN out
    ELSE LET key == Lower(values[i])
         IN IF key \in seen THEN DedupeLoop(values, i + 1, seen, out)
            ELSE DedupeLoop(values, i + 1, seen \cup {key}, Append(out, values[i]))

dedupe_preserve(values) == DedupeLoop(values, 1, {}, <<>>)

matches_direct(skill, text) == has_token(text, skill)

matches_partial(skill, text) ==
    \E v \in 1..Len(SYNONYMS(skill)) : has_token(text, SYNONYMS(skill)[v])

find_skills_in_text(text) ==
    LET hit(skill) == \/ has_token(text, skill)
                      \/ matches_partial(Lower(skill), text)
        found == SelectSeq(SKILL_DICTIONARY, hit)
        known(token) == \E k \in 1..Len(SKILL_DICTIONARY) :
                            Lower(token) = Lower(SKILL_DICTIONARY[k])
        caps == SelectSeq(CapsTokens(text, 1), known)
    IN dedupe_preserve(found \o caps)

\* the truncation that caps each list at the limit on its own
truncate_each_list(required, preferred, limit) ==
    [required |-> SubSeq(required, 1, IF Len(required) < limit THEN Len(required) ELSE limit),
     preferred |-> SubSeq(preferred, 1, IF Len(preferred) < limit THEN Len(preferred) ELSE limit)]

truncate_skills(required, preferred, limit) ==
    IF Len(required) >= limit
    THEN [required |-> SubSeq(required, 1, limit), preferred |-> <<>>]
    ELSE [required |-> required,
          preferred |-> SubSeq(preferred, 1,
                               IF Len(preferred) < limit - Len(required)
                               THEN Len(preferred) ELSE limit - Len(required))]

AnyKeyIn(keys, lower) == \E key \in keys : Contains(lower, key)

\* the header detection that looks for the preferred keywords first
section_after_preferred_first(current, line) ==
    LET lower == Lower(line)
    IN IF AnyKeyIn(SECTION_PREFERRED, lower) THEN "preferred"
       ELSE IF AnyKeyIn(SECTION_REQUIRED, lower) THEN "required"
       ELSE IF AnyKeyIn(SECTION_RESP, lower) THEN "required"
       ELSE current

\* the header detection of one line: the section that is current after it
section_after(current, line) ==
    LET lower == Lower(line)
    IN IF AnyKeyIn(SECTION_REQUIRED, lower) THEN "required"
       ELSE IF AnyKeyIn(SECTION_PREFERRED, lower) THEN "preferred"
       ELSE IF AnyKeyIn(SECTION_RESP, lower) THEN "required"
       ELSE current

RECURSIVE ScanLines(_, _, _, _, _)

\* one line of the scan: its skills go to the list of the section current after it
ScanLine(lines, i, cur, found, required, preferred) ==
    IF cur = "preferred"
    THEN ScanLines(lines, i + 1, cur, required, preferred \o found)
    ELSE ScanLines(lines, i + 1, cur, required \o found, preferred)

ScanLines(lines, i, current, required, preferred) ==
    IF i > Len(lines) THEN [required |-> required, preferred |-> preferred]
    ELSE ScanLine(lines, i, section_after(current, lines[i]),
                  find_skills_in_text(lines[i]), required, preferred)

\* [line.strip() for line in text.splitlines() if line.strip()]
StrippedLines(text) ==
    LET nonblank(l) == Strip(l) # ""
        kept == SelectSeq(SplitLines(text), nonblank)
    IN [i \in DOMAIN kept |-> Strip(kept[i])]

\* the fallback scan of the whole text, then the cap
extract_capped(jd_text, top_n_skills, required, preferred) ==
    IF required = <<>> /\ preferred = <<>>
    THEN IF top_n_skills > 0
         THEN truncate_skills(dedupe_preserve(find_skills_in_text(jd_text)), <<>>,
                              top_n_skills)
         ELSE [required |-> dedupe_preserve(find_skills_in_text(jd_text)),
               preferred |-> <<>>]
    ELSE IF top_n_skills > 0
         THEN truncate_skills(required, preferred, top_n_skills)
         ELSE [required |-> required, preferred |-> preferred]

\* required = dedupe(required); preferred = [s for s in dedupe(preferred) if s not in required]
extract_deduped(jd_text, top_n_skills, required, preferred) ==
    LET fresh(s) == ~InSeq(s, required)
    IN extract_capped(jd_text, top_n_skills, required, SelectSeq(preferred, fresh))

extract_scanned(jd_text, top_n_skills, scanned) ==
    extract_deduped(jd_text, top_n_skills,
                    dedupe_preserve(scanned.required), dedupe_preserve(scanned.preferred))

extract_skills_from_jd(jd_text, top_n_skills) ==
    extract_scanned(jd_text, top_n_skills,
                    ScanLines(StrippedLines(jd_text), 1, "required", <<>>, <<>>))

-----------------------------------------------------------------------------
(* Evidence matcher and coverage scorer                                    *)

\* [line for line in professional_summary.splitlines() if line.strip()]
SummaryLines(state) ==
    LET nonblank(l) == Strip(l) # ""
    IN SelectSeq(SplitLines(state.professional_summary), nonblank)

\* has_direct_evidence that forgets the professional summary
has_direct_evidence_no_summary(state, skill) ==
    LET token == Lower(Strip(skill))
    IN IF token = "" THEN FALSE
       ELSE \/ \E i \in 1..Len(state.technical_skills) :
                   has_token(state.technical_skills[i], token)
            \/ \E r \in 1..Len(state.experience) :
                   \E b \in 1..Len(state.experience[r].bullets) :
                       has_token(state.experience[r].bullets[b], token)

has_direct_evidence(state, skill) ==
    LET token == Lower(Strip(skill))
    IN IF token = "" THEN FALSE
       ELSE \/ \E i \in 1..Len(state.technical_skills) :
                   has_token(state.technical_skills[i], token)
            \/ \E i \in 1..Len(SummaryLines(state)) :
                   has_token(SummaryLines(state)[i], token)
            \/ \E r \in 1..Len(state.experience) :
                   \E b \in 1..Len(state.experience[r].bullets) :
                       has_token(state.experience[r].bullets[b], token)

\* match() that takes a synonym for the skill whatever the mode
evidence_match_any_synonym(canonical, text, partial) ==
    \/ matches_direct(canonical, text)
    \/ matches_partial(canonical, text)

\* match() of _find_evidence
evidence_match(canonical, text, partial) ==
    \/ matches_direct(canonical, text)
    \/ (partial /\ matches_partial(canonical, text))

RECURSIVE BulletEvidence(_, _, _, _)
\* the evidence of the bullets b.. of one role, in bullet order
BulletEvidence(role, b, canonical, partial) ==
    IF b > Len(role.bullets) THEN <<>>
    ELSE (IF evidence_match(canonical, role.bullets[b], partial)
          THEN <<[section |-> "experience", role_id |-> role.role_id,
                  bullet_index |-> <<b - 1>>, snippet |-> role.bullets[b]]>>
          ELSE <<>>) \o BulletEvidence(role, b + 1, canonical, partial)

RECURSIVE RoleEvidence(_, _, _, _)
RoleEvidence(state, r, canonical, partial) ==
    IF r > Len(state.experience) THEN <<>>
    ELSE BulletEvidence(state.experience[r], 1, canonical, partial)
             \o RoleEvidence(state, r + 1, canonical, partial)

RECURSIVE LineEvidence(_, _, _, _, _)
\* the evidence of the lines i.. of the summary or of the technical skills
LineEvidence(section, lines, i, canonical, partial) ==
    IF i > Len(lines) THEN <<>>
    ELSE (IF evidence_match(canonical, lines[i], partial)
          THEN <<[section |-> section, role_id |-> "", bullet_index |-> <<>>,
                  snippet |-> lines[i]]>>
          ELSE <<>>) \o LineEvidence(section, lines, i + 1, canonical, partial)

find_evidence(skill, state, summary_lines, skills_lines, strict_mode, direct_only) ==
    LineEvidence("summary", summary_lines, 1, Lower(skill), ~direct_only /\ ~strict_mode)
      \o LineEvidence("technical_skills", skills_lines, 1, Lower(skill),
                      ~direct_only /\ ~strict_mode)
      \o RoleEvidence(state, 1, Lower(skill), ~direct_only /\ ~strict_mode)

\* the SkillCoverage of one skill, from its direct and its partial evidence
coverage_item(skill, strict_mode, direct_evidence, partial_evidence) ==
    IF direct_evidence # <<>>
    THEN [skill |-> skill, status |-> "direct", evidence |-> direct_evidence,
          direct_from_resume |-> TRUE]
    ELSE IF ~strict_mode /\ partial_evidence # <<>>
    THEN [skill |-> skill, status |-> "partial", evidence |-> partial_evidence,
          direct_from_resume |-> FALSE]
    ELSE [skill |-> skill, status |-> "missing", evidence |-> <<>>,
          direct_from_resume |-> FALSE]

coverage_of(skill, state, strict_mode) ==
    coverage_item(skill, strict_mode,
        find_evidence(skill, state, SummaryLines(state), state.technical_skills,
                      strict_mode, TRUE),
        find_evidence(skill, state, SummaryLines(state), state.technical_skills,
                      strict_mode, FALSE))

coverage_for_skills(skills, state, strict_mode) ==
    [i \in 1..Len(skills) |-> coverage_of(skills[i], state, strict_mode)]

RECURSIVE CountLoop(_, _, _)
\* _count_covered, in halves: direct adds 1.0 (two halves), partial adds 0.5
CountLoop(coverage, i, strict_mode) ==
    IF i > Len(coverage) THEN 0
    ELSE (IF coverage[i].status = "direct" THEN 2
          ELSE IF coverage[i].status = "partial" /\ ~strict_mode THEN 1
          ELSE 0) + CountLoop(coverage, i + 1, strict_mode)

\* _count_covered that gives a partial match full credit
count_covered_full_partial(coverage, strict_mode) ==
    2 * Cardinality({i \in 1..Len(coverage) :
                        \/ coverage[i].status = "direct"
                        \/ (coverage[i].status = "partial" /\ ~strict_mode)})

count_covered(coverage, strict_mode) == CountLoop(coverage, 1, strict_mode)

\* round(num / den) for num >= 0, den > 0: Python rounds a tie to the even integer
Round(num, den) ==
    LET q == num \div den
        r == num % den
    IN IF 2 * r > den THEN q + 1
       ELSE IF 2 * r < den THEN q
       ELSE IF q % 2 = 0 THEN q ELSE q + 1

Min2(a, b) == IF a < b THEN a ELSE b
Max2(a, b) == IF a > b THEN a ELSE b

must_have_gates(jd_text) ==
    LET lower == Lower(jd_text)
        hit(kw) == Contains(lower, kw)
    IN dedupe_preserve(SelectSeq(MUST_HAVE_DOMAINS, hit))

\* keyword_score: the ratios are halves / (2 total), 0 for an empty list
keyword_score_of(req_halves, req_total, pref_halves, pref_total) ==
    Max2(0, Min2(100,
        IF req_total = 0 /\ pref_total = 0 THEN 0
        ELSE IF pref_total = 0 THEN Round(req_halves * 100, 2 * req_total)
        ELSE IF req_total = 0 THEN Round(pref_halves * 30, 2 * pref_total)
        ELSE Round(req_halves * 70 * pref_total + pref_halves * 30 * req_total,
                   2 * req_total * pref_total)))

IsDirect(item) == item.status = "direct"
IsMissing(item) == item.status = "missing"

\* the role score that counts a partial match like a direct one
role_score_counts_partial(req_coverage, keyword_score) ==
    IF Len(req_coverage) # 0
    THEN Round((Len(req_coverage) - Len(SelectSeq(req_coverage, IsMissing))) * 100,
               Len(req_coverage))
    ELSE keyword_score

role_score_of(req_coverage, keyword_score) ==
    IF Len(req_coverage) # 0
    THEN Round(Len(SelectSeq(req_coverage, IsDirect)) * 100, Len(req_coverage))
    ELSE keyword_score

\* the blend with the weight 0.6 given to both scores
blend_same_weight(keyword_score, role_score) ==
    Round(keyword_score * 6 + role_score * 6, 10)

\* round(keyword_score * 0.6 + role_score * 0.4)
blend(keyword_score, role_score) == Round(keyword_score * 6 + role_score * 4, 10)

\* the must-have tokens of the JD that the resume gives no direct evidence for
missing_gates(jd_text, state) ==
    LET unproven(kw) == ~has_direct_evidence(state, kw)
    IN SelectSeq(must_have_gates(jd_text), unproven)

SkillNames(coverage) == [i \in 1..Len(coverage) |-> coverage[i].skill]

ats_response(req_coverage, pref_coverage, keyword_score, role_score, final_score, missing_must_have) ==
    [ats_score |-> IF missing_must_have # <<>> THEN Min2(final_score, 40) ELSE final_score,
     keyword_score |-> keyword_score,
     role_score |-> role_score,
     capped_reason |-> IF missing_must_have # <<>>
                       THEN <<"Missing domain must-have evidence">> ELSE <<>>,
     missing_must_have |-> IF missing_must_have # <<>>
                           THEN <<dedupe_preserve(missing_must_have)>> ELSE <<>>,
     required |-> req_coverage,
     preferred |-> pref_coverage,
     missing_required |-> SkillNames(SelectSeq(req_coverage, IsMissing)),
     missing_preferred |-> SkillNames(SelectSeq(pref_coverage, IsMissing))]

score_blend(req_coverage, pref_coverage, keyword_score, role_score, missing_must_have) ==
    ats_response(req_coverage, pref_coverage, keyword_score, role_score,
                 blend(keyword_score, role_score), missing_must_have)

score_keyword(req_coverage, pref_coverage, keyword_score, missing_must_have) ==
    score_blend(req_coverage, pref_coverage, keyword_score,
                role_score_of(req_coverage, keyword_score), missing_must_have)

score_coverage(req_coverage, pref_coverage, strict_mode, missing_must_have) ==
    score_keyword(req_coverage, pref_coverage,
        keyword_score_of(count_covered(req_coverage, strict_mode), Len(req_coverage),
                         count_covered(pref_coverage, strict_mode), Len(pref_coverage)),
        missing_must_have)

score_skills(skills, jd_text, state, strict_mode) ==
    score_coverage(coverage_for_skills(skills.required, state, strict_mode),
                   coverage_for_skills(skills.preferred, state, strict_mode),
                   strict_mode, missing_gates(jd_text, state))

score_resume_against_jd(jd_text, state, top_n_skills, strict_mode) ==
    score_skills(extract_skills_from_jd(jd_text, top_n_skills), jd_text, state, strict_mode)

-----------------------------------------------------------------------------
(* Role suggestion and the proof-bullet template                           *)

STOPWORDS == {"and", "or", "the", "a", "an", "to", "of", "for", "with", "in", "on",
              "by", "from", "as", "at"}

\* the characters of the model's identifiers in ASCII order, for str comparison
AsciiChars == " #+-." \o DigitChars \o UpperChars \o "_" \o LowerChars

CodeOf == [c \in CharSet(AsciiChars) |->
             CHOOSE i \in 1..Len(AsciiChars) : Ch(AsciiChars, i) = c]

RECURSIVE StrLess(_, _)
\* a < b on str
StrLess(a, b) ==
    IF b = "" THEN FALSE
    ELSE IF a = "" THEN TRUE
    ELSE IF Ch(a, 1) = Ch(b, 1) THEN StrLess(SubSeq(a, 2, Len(a)), SubSeq(b, 2, Len(b)))
    ELSE CodeOf[Ch(a, 1)] < CodeOf[Ch(b, 1)]

\* where the maximal run of token characters that starts at i ends
RunEnd(s, i) == Max({j \in i..Len(s) : \A k \in i..j : Ch(s, k) \in TokenChars})

RECURSIVE TokenRuns(_, _)
\* _TOKEN_RE.findall(s), scanning from position i
TokenRuns(s, i) ==
    IF i > Len(s) THEN {}
    ELSE IF Ch(s, i) \in TokenChars
    THEN {SubSeq(s, i, RunEnd(s, i))} \cup TokenRuns(s, RunEnd(s, i) + 1)
    ELSE TokenRuns(s, i + 1)

tokenize(text) ==
    {Lower(t) : t \in {u \in TokenRuns(text, 1) : Len(u) > 2}} \ STOPWORDS

\* _contains_token of resume_patches: the same pattern as _has_token
contains_token(text, token) == has_token(text, token)

RECURSIVE Join(_, _)
\* sep.join(parts)
Join(parts, sep) ==
    IF parts = <<>> THEN ""
    ELSE IF Len(parts) = 1 THEN parts[1]
    ELSE parts[1] \o sep \o Join(Tail(parts), sep)

role_text(role) ==
    LET nonempty(part) == part # ""
    IN Join(SelectSeq(<<role.company, role.title, role.location, role.dates,
                        Join(role.bullets, " ")>>, nonempty), " ")

\* the overlap score of one role
role_overlap(role, skill, tokens) ==
    Cardinality(tokens \cap tokenize(role_text(role)))
      + (IF skill # "" /\ contains_token(role_text(role), skill) THEN 3 ELSE 0)

\* the key that orders by score alone
ScoredBefore_score_only(a, b) == a.score > b.score

\* the key (-score, role_id) of a before that of b
ScoredBefore(a, b) ==
    \/ a.score > b.score
    \/ (a.score = b.score /\ StrLess(a.role_id, b.role_id))

RECURSIVE InsertScored(_, _)
\* x put into the sorted sequence, after the entries whose key is not greater (stable)
InsertScored(sorted, x) ==
    IF sorted = <<>> THEN <<x>>
    ELSE IF ScoredBefore(x, Head(sorted)) THEN <<x>> \o sorted
    ELSE <<Head(sorted)>> \o InsertScored(Tail(sorted), x)

RECURSIVE SortScored(_, _)
\* scored.sort(key=lambda item: (-item[0], item[1]))
SortScored(scored, i) ==
    IF i > Len(scored) THEN <<>>
    ELSE IF i = Len(scored) THEN <<scored[i]>>
    ELSE InsertScored(SortScored(scored, i + 1), scored[i])

FirstTwo(s) == SubSeq(s, 1, Min2(2, Len(s)))

RoleIds(scored) == [i \in 1..Len(scored) |-> scored[i].role_id]

top_roles(scored) ==
    LET positive(item) == item.score > 0
    IN IF SelectSeq(scored, positive) # <<>>
       THEN FirstTwo(RoleIds(SelectSeq(scored, positive)))
       ELSE FirstTwo(RoleIds(scored))

scored_roles(experience, skill, tokens) ==
    [i \in 1..Len(experience) |->
        [score |-> role_overlap(experience[i], skill, tokens),
         role_id |-> experience[i].role_id]]

suggest_roles_for_skill(resume_state, skill, jd_context) ==
    IF resume_state.experience = <<>> THEN <<>>
    ELSE top_roles(SortScored(
             scored_roles(resume_state.experience, Strip(skill),
                          tokenize(Strip(skill) \o " " \o jd_context)), 1))

choose_context(jd_text) ==
    LET text == Lower(jd_text)
    IN IF AnyKeyIn({"dashboard", "report", "tableau", "visualization"}, text)
       THEN "reporting and analytics"
       ELSE IF AnyKeyIn({"pipeline", "ingest", "ingestion", "etl", "elt"}, text)
       THEN "data ingestion and transformation"
       ELSE IF AnyKeyIn({"model", "schema", "dbt", "dimensional"}, text)
       THEN "data modeling"
       ELSE "data processing"

proof_bullet_template(skill, jd_text) ==
    "Used " \o Strip(skill) \o " to support " \o choose_context(jd_text)
        \o " workflows, improving consistency and reliability."

-----------------------------------------------------------------------------
(* Truth guardrail                                                         *)

\* {entry.skill.strip().lower() for entry in (overrides.skills if overrides else [])}
override_skills(overrides) ==
    {Lower(Strip(overrides.skills[i].skill)) : i \in 1..Len(overrides.skills)}

\* the sets apply_truth_guardrails builds before its loop
guard_context(ats_report, overrides, truth_mode, resume_state, jd_text) ==
    [truth_mode |-> truth_mode,
     missing_required |->
        {Lower(ats_report.missing_required[i]) : i \in 1..Len(ats_report.missing_required)},
     override_skills |-> override_skills(overrides),
     direct_skills |->
        {Lower(Strip(ats_report.required[i].skill)) :
            i \in {j \in 1..Len(ats_report.required) :
                      ats_report.required[j].direct_from_resume}},
     resume_state |-> resume_state,
     jd_text |-> jd_text]

\* the blocked suggestion with target_roles = every suggested role
build_blocked_suggestion_all_roles(skill, reason, recommended_action, suggested_roles, jd_text) ==
    [skill |-> skill,
     reason |-> reason,
     recommended_action |-> recommended_action,
     suggested_role_ids |-> suggested_roles,
     example_override_payload |->
        IF recommended_action = "add_override"
        THEN <<[skills |-> <<[skill |-> skill, level |-> "worked_with",
                              target_roles |-> suggested_roles,
                              proof_bullets |-> <<proof_bullet_template(skill, jd_text)>>]>>]>>
        ELSE <<>>]

\* _build_blocked_suggestion, given suggest_roles_for_skill(resume_state, skill, jd_text)
build_blocked_suggestion(skill, reason, recommended_action, suggested_roles, jd_text) ==
    [skill |-> skill,
     reason |-> reason,
     recommended_action |-> recommended_action,
     suggested_role_ids |-> suggested_roles,
     example_override_payload |->
        IF recommended_action = "add_override"
        THEN <<[skills |-> <<[skill |-> skill, level |-> "worked_with",
                              target_roles |-> SubSeq(suggested_roles, 1,
                                                      Min2(1, Len(suggested_roles))),
                              proof_bullets |-> <<proof_bullet_template(skill, jd_text)>>]>>]>>
        ELSE <<>>]

\* the strict rule for experience patches left out
guard_rule_strict_skills_only(section, skill_key, has_override, has_direct, truth_mode, missing_required) ==
    IF /\ truth_mode = "strict"
       /\ section = "technical_skills" /\ ~(has_direct \/ has_override)
    THEN "technical_skills"
    ELSE IF /\ truth_mode = "balanced"
            /\ section = "experience" /\ skill_key \in missing_required /\ ~has_override
    THEN "experience"
    ELSE ""

\* the rule a patch violates: "experience", "technical_skills" or "" (it passes)
guard_rule(section, skill_key, has_override, has_direct, truth_mode, missing_required) ==
    IF /\ truth_mode = "strict"
       /\ section = "experience" /\ skill_key \in missing_required /\ ~has_override
    THEN "experience"
    ELSE IF /\ truth_mode = "strict"
            /\ section = "technical_skills" /\ ~(has_direct \/ has_override)
    THEN "technical_skills"
    ELSE IF /\ truth_mode = "balanced"
            /\ section = "experience" /\ skill_key \in missing_required /\ ~has_override
    THEN "experience"
    ELSE ""

\* skill_key = (patch.skill or "").strip().lower()
skill_key_of(patch) == Lower(Strip(patch.skill))

\* an override lookup that never finds one
has_override_never(patch, ctx) == FALSE

\* has_override = skill_key in override_skills
has_override(patch, ctx) == skill_key_of(patch) \in ctx.override_skills

\* direct evidence taken from the report alone
has_direct_report_only(patch, ctx) == skill_key_of(patch) \in ctx.direct_skills

\* has_direct = skill_key in direct_skills
\*              or (skill_key and has_direct_evidence(resume_state, skill_key))
has_direct(patch, ctx) ==
    \/ skill_key_of(patch) \in ctx.direct_skills
    \/ /\ skill_key_of(patch) # ""
       /\ has_direct_evidence(ctx.resume_state, skill_key_of(patch))

\* the rule checks of the loop body for one patch
guard_verdict(patch, ctx) ==
    guard_rule(patch.section, skill_key_of(patch), has_override(patch, ctx),
               has_direct(patch, ctx), ctx.truth_mode, ctx.missing_required)

guard_reason(rule, truth_mode) ==
    IF rule = "experience"
    THEN "Missing required skill without override; cannot insert into experience in "
            \o truth_mode \o " mode."
    ELSE "No direct or override evidence; cannot add to technical skills in strict mode."

\* skill or "unknown"
SkillOrUnknown(skill) == IF Strip(skill) # "" THEN Strip(skill) ELSE "unknown"

\* blocked.append(_build_blocked_suggestion(...)) of the loop body
guard_blocked(patch, rule, ctx) ==
    build_blocked_suggestion(
        SkillOrUnknown(patch.skill),
        guard_reason(rule, ctx.truth_mode),
        IF rule = "experience" THEN "add_override" ELSE "downgrade_to_exposure",
        suggest_roles_for_skill(ctx.resume_state, SkillOrUnknown(patch.skill), ctx.jd_text),
        ctx.jd_text)

RECURSIVE GuardLoop(_, _, _, _, _)

\* the loop body without its `continue`: a blocked patch is also kept
guard_patch_no_continue(suggestions, i, ctx, rule, filtered, blocked) ==
    IF rule = ""
    THEN GuardLoop(suggestions, i + 1, ctx, Append(filtered, suggestions[i]), blocked)
    ELSE GuardLoop(suggestions, i + 1, ctx, Append(filtered, suggestions[i]),
                   Append(blocked, guard_blocked(suggestions[i], rule, ctx)))

\* one patch of the loop: blocked (and skipped) or appended to filtered
guard_patch(suggestions, i, ctx, rule, filtered, blocked) ==
    IF rule = ""
    THEN GuardLoop(suggestions, i + 1, ctx, Append(filtered, suggestions[i]), blocked)
    ELSE GuardLoop(suggestions, i + 1, ctx, filtered,
                   Append(blocked, guard_blocked(suggestions[i], rule, ctx)))

GuardLoop(suggestions, i, ctx, filtered, blocked) ==
    IF i > Len(suggestions) THEN [patches |-> filtered, blocked |-> blocked]
    ELSE guard_patch(suggestions, i, ctx, guard_verdict(suggestions[i], ctx),
                     filtered, blocked)

apply_truth_guardrails(suggestions, ats_report, overrides, truth_mode, resume_state, jd_text) ==
    IF truth_mode = "off" THEN [patches |-> suggestions, blocked |-> <<>>]
    ELSE GuardLoop(suggestions, 1,
                   guard_context(ats_report, overrides, truth_mode, resume_state, jd_text),
                   <<>>, <<>>)

-----------------------------------------------------------------------------
(* Truth validation of a batch of patches                                  *)

\* skills_in_patch: [patch.skill] if patch.skill else find_skills_in_text(new_bullet)
skills_in_patch(patch) ==
    IF patch.skill # "" THEN <<patch.skill>> ELSE find_skills_in_text(patch.new_bullet)

\* the test of the inner loop without the override keys
skill_is_unsupported_no_override(skill, resume_state, override_keys) ==
    /\ Lower(Strip(skill)) # ""
    /\ ~has_direct_evidence(resume_state, Lower(Strip(skill)))

\* the body of the inner loop: TRUE when the skill raises the ValueError
skill_is_unsupported(skill, resume_state, override_keys) ==
    /\ Lower(Strip(skill)) # ""
    /\ Lower(Strip(skill)) \notin override_keys
    /\ ~has_direct_evidence(resume_state, Lower(Strip(skill)))

validation_error(truth_mode, skill) ==
    "Truth mode '" \o truth_mode
        \o "' blocks experience patch without direct or override evidence for skill: "
        \o skill

RECURSIVE FirstUnsupported(_, _, _, _)
\* the first skill of the list that raises, as <<skill>>, or <<>>
FirstUnsupported(skills, k, resume_state, override_keys) ==
    IF k > Len(skills) THEN <<>>
    ELSE IF skill_is_unsupported(skills[k], resume_state, override_keys)
    THEN <<skills[k]>>
    ELSE FirstUnsupported(skills, k + 1, resume_state, override_keys)

RECURSIVE ValidateLoop(_, _, _, _, _)
ValidateLoop(patches, i, resume_state, override_keys, truth_mode) ==
    IF i > Len(patches) THEN ""
    ELSE IF patches[i].section # "experience"
    THEN ValidateLoop(patches, i + 1, resume_state, override_keys, truth_mode)
    ELSE IF FirstUnsupported(skills_in_patch(patches[i]), 1, resume_state,
                             override_keys) # <<>>
    THEN validation_error(truth_mode,
                          FirstUnsupported(skills_in_patch(patches[i]), 1, resume_state,
                                           override_keys)[1])
    ELSE ValidateLoop(patches, i + 1, resume_state, override_keys, truth_mode)

\* the message of the ValueError raised, or "" when the batch passes
validate_patches_truth_mode(patches, resume_state, ovr, truth_mode) ==
    IF truth_mode = "off" THEN ""
    ELSE ValidateLoop(patches, 1, resume_state, override_skills(ovr), truth_mode)

-----------------------------------------------------------------------------
(* Patch application                                                       *)

RECURSIVE TabsToSpaces(_)
\* text.replace("\t", " ").replace("\r", " ").replace("\n", " ")
TabsToSpaces(s) ==
    IF s = "" THEN ""
    ELSE (IF Ch(s, 1) \in {"\t", "\r", "\n"} THEN " " ELSE Ch(s, 1))
            \o TabsToSpaces(SubSeq(s, 2, Len(s)))

RECURSIVE DigitsEnd(_, _)
\* the position after the run of digits that starts at i
DigitsEnd(s, i) ==
    IF i <= Len(s) /\ Ch(s, i) \in CharSet(DigitChars) THEN DigitsEnd(s, i + 1) ELSE i

\* length of the marker [-*] or \d+\. at the head of s, 0 when there is none
MarkerLen(s) ==
    IF s # "" /\ Ch(s, 1) \in {"-", "*"} THEN 1
    ELSE IF DigitsEnd(s, 1) > 1 /\ DigitsEnd(s, 1) <= Len(s) /\ Ch(s, DigitsEnd(s, 1)) = "."
    THEN DigitsEnd(s, 1)
    ELSE 0

\* _BULLET_PREFIX_RE.sub("", text): ^\s*(?:[-*]|\d+\.)\s+ removed
StripBulletPrefix(s) ==
    IF /\ MarkerLen(LStrip(s)) > 0
       /\ MarkerLen(LStrip(s)) < Len(LStrip(s))
       /\ Ch(LStrip(s), MarkerLen(LStrip(s)) + 1) \in SpaceChars
    THEN LStrip(SubSeq(LStrip(s), MarkerLen(LStrip(s)) + 1, Len(LStrip(s))))
    ELSE s

RECURSIVE CollapseSpaces(_)
\* re.sub(r"\s+", " ", text)
CollapseSpaces(s) ==
    IF s = "" THEN ""
    ELSE IF Ch(s, 1) \in SpaceChars
    THEN " " \o CollapseSpaces(LStrip(s))
    ELSE Ch(s, 1) \o CollapseSpaces(SubSeq(s, 2, Len(s)))

clean_bullet(text) == Strip(CollapseSpaces(StripBulletPrefix(TabsToSpaces(text))))

\* the insertion that puts x before the anchor, not after it
InsertBeforeAnchor(seq, insert_at, x) ==
    SubSeq(seq, 1, insert_at - 1) \o <<x>> \o SubSeq(seq, insert_at, Len(seq))

\* list.insert(insert_at, x), insert_at counted from 0
InsertAt(seq, insert_at, x) ==
    SubSeq(seq, 1, insert_at) \o <<x>> \o SubSeq(seq, insert_at + 1, Len(seq))

Applied(state) == [error |-> "", kind |-> "", state |-> state]

Raised(kind, message, state) == [error |-> message, kind |-> kind, state |-> state]

\* position in experience of the first role with the role_id, 0 when there is none
RolePosition(state, role_id) ==
    IF \E r \in 1..Len(state.experience) : state.experience[r].role_id = role_id
    THEN CHOOSE r \in 1..Len(state.experience) :
            /\ state.experience[r].role_id = role_id
            /\ \A q \in 1..(r - 1) : state.experience[q].role_id # role_id
    ELSE 0

WithBullets(state, r, bullets) ==
    [state EXCEPT !.experience[r].bullets = bullets]

\* idx = patch.after_index if patch.after_index is not None else len(items) - 1
anchor_of(patch, items) ==
    IF patch.after_index # <<>> THEN patch.after_index[1] ELSE Len(items) - 1

\* the branches of _apply_experience_patch with a replace that accepts
\* bullet_index = len(bullets)
apply_to_role_off_by_one(state, patch, r, bullet) ==
    IF patch.action = "replace"
    THEN IF \/ patch.bullet_index = <<>>
            \/ patch.bullet_index[1] > Len(state.experience[r].bullets)
            \/ patch.bullet_index[1] < 0
         THEN Raised("IndexError", "bullet_index out of range", state)
         ELSE Applied(WithBullets(state, r,
                 [i \in 1..Max2(Len(state.experience[r].bullets), patch.bullet_index[1] + 1) |->
                     IF i = patch.bullet_index[1] + 1 THEN bullet
                     ELSE state.experience[r].bullets[i]]))
    ELSE IF patch.action = "insert"
    THEN IF \/ anchor_of(patch, state.experience[r].bullets) < -1
            \/ anchor_of(patch, state.experience[r].bullets)
                  >= Len(state.experience[r].bullets)
         THEN Raised("IndexError", "after_index out of range", state)
         ELSE Applied(WithBullets(state, r,
                 InsertAt(state.experience[r].bullets,
                          anchor_of(patch, state.experience[r].bullets) + 1, bullet)))
    ELSE Applied(state)

\* the replace and insert branches of _apply_experience_patch, role found at r
apply_to_role(state, patch, r, bullet) ==
    IF patch.action = "replace"
    THEN IF \/ patch.bullet_index = <<>>
            \/ patch.bullet_index[1] >= Len(state.experience[r].bullets)
            \/ patch.bullet_index[1] < 0
         THEN Raised("IndexError", "bullet_index out of range", state)
         ELSE Applied(WithBullets(state, r,
                 [state.experience[r].bullets EXCEPT ![patch.bullet_index[1] + 1] = bullet]))
    ELSE IF patch.action = "insert"
    THEN IF \/ anchor_of(patch, state.experience[r].bullets) < -1
            \/ anchor_of(patch, state.experience[r].bullets)
                  >= Len(state.experience[r].bullets)
         THEN Raised("IndexError", "after_index out of range", state)
         ELSE Applied(WithBullets(state, r,
                 InsertAt(state.experience[r].bullets,
                          anchor_of(patch, state.experience[r].bullets) + 1, bullet)))
    ELSE Applied(state)

\* _find_role followed by the body of _apply_experience_patch
apply_experience_patch(state, patch) ==
    IF patch.role_id = "" THEN Raised("ValueError", "role_id is required", state)
    ELSE IF RolePosition(state, patch.role_id) = 0
    THEN Raised("ValueError", "role_id not found", state)
    ELSE apply_to_role(state, patch, RolePosition(state, patch.role_id),
                       clean_bullet(patch.new_bullet))

apply_skill_patch(state, patch) ==
    IF patch.action # "insert"
    THEN Raised("ValueError", "Only insert is supported for technical_skills", state)
    ELSE IF \/ anchor_of(patch, state.technical_skills) < -1
            \/ anchor_of(patch, state.technical_skills) >= Len(state.technical_skills)
    THEN Raised("IndexError", "after_index out of range", state)
    ELSE Applied([state EXCEPT !.technical_skills =
                     InsertAt(state.technical_skills,
                              anchor_of(patch, state.technical_skills) + 1,
                              clean_bullet(patch.new_bullet))])

apply_one_patch(state, patch) ==
    IF patch.section = "technical_skills" THEN apply_skill_patch(state, patch)
    ELSE apply_experience_patch(state, patch)

RECURSIVE ApplyLoop(_, _, _)
\* the loop of apply_patches_to_state from patch i on; stops at the first exception
ApplyLoop(outcome, patches, i) ==
    IF i > Len(patches) \/ outcome.error # "" THEN outcome
    ELSE ApplyLoop(apply_one_patch(outcome.state, patches[i]), patches, i + 1)

RECURSIVE SkipFailedLoop(_, _, _)
SkipFailedLoop(outcome, patches, i) ==
    IF i > Len(patches) THEN outcome
    ELSE IF apply_one_patch(outcome.state, patches[i]).error = ""
    THEN SkipFailedLoop([outcome EXCEPT !.state = apply_one_patch(outcome.state, patches[i]).state],
                        patches, i + 1)
    ELSE IF outcome.error # "" THEN SkipFailedLoop(outcome, patches, i + 1)
    ELSE SkipFailedLoop(apply_one_patch(outcome.state, patches[i]), patches, i + 1)

\* the loop that goes on with the next patch after a failure and reports the first
apply_patches_skip_failed(state, patches) == SkipFailedLoop(Applied(state), patches, 1)

\* the state after the loop, with the exception that ended it, if any
apply_patches_to_state(state, patches) == ApplyLoop(Applied(state), patches, 1)

-----------------------------------------------------------------------------
(* Inputs: resumes, job descriptions                                       *)

Role(role_id, company, title, bullets) ==
    [role_id |-> role_id, company |-> company, title |-> title,
     location |-> "", dates |-> "", bullets |-> bullets]

ResumeState(summary, skills, experience) ==
    [professional_summary |-> summary, technical_skills |-> skills,
     experience |-> experience, education |-> <<"BS Computer Science">>]

SUMMARIES == {"", "Data engineer.\nWorked with SCADA systems"}

SKILL_LINES == {<<>>, <<"Python">>, <<"Python, SQL", "k8s">>}

EXPERIENCES ==
    {<<>>,
     <<Role("r1", "Acme", "Data Engineer", <<"Built Tableau dashboards">>)>>,
     <<Role("r2", "Zeta", "Analyst", <<"Tuned MySQL queries", "Used Python daily">>),
       Role("r1", "Acme", "Data Engineer", <<>>)>>}

ResumePool ==
    {ResumeState(s, t, e) : s \in SUMMARIES, t \in SKILL_LINES, e \in EXPERIENCES}

JD_TEXTS ==
    {"Required: SQL, Python. Preferred: Tableau.",
     "Required: SQL, Python\nPreferred: Tableau, Kubernetes",
     "Nice-to-have: Tableau",
     "Must-have: SCADA and SQL",
     "Build a data pipeline with Python",
     "Great team",
     "Qualifications\n  Kubernetes, python\n\nPreferred\nMySQL, PYTHON and DBT"}

RESUME_ID == "resume-1"

\* the largest top_n_skills a request carries, the default aside
MaxTopN == 3

\* top_n_skills: int = 25
DEFAULT_TOP_N == 25

NoOverrides == [present |-> FALSE, skills |-> <<>>]

Idle == [op |-> "none"]

-----------------------------------------------------------------------------
(* POST /ats-score                                                         *)

ats_score(payload) ==
    IF payload.resume_id = "" /\ payload.resume_text = ""
    THEN [op |-> "ats_score", status |-> 422]
    ELSE IF payload.resume_id # RESUME_ID
    THEN [op |-> "ats_score", status |-> 404]
    ELSE [op |-> "ats_score", status |-> 200,
          body |-> score_resume_against_jd(payload.jd_text, resume,
                                           payload.top_n_skills, payload.strict_mode)]

AtsScoreRequests ==
    {[op |-> "ats_score", resume_id |-> id, resume_text |-> "", jd_text |-> jd,
      top_n_skills |-> n, strict_mode |-> strict] :
        id \in {RESUME_ID, "resume-9", ""}, jd \in JD_TEXTS,
        n \in 0..MaxTopN \cup {DEFAULT_TOP_N}, strict \in BOOLEAN}

\* the pending request is served
AtsScore ==
    /\ req.op = "ats_score"
    /\ resp = Idle
    /\ resp' = ats_score(req)
    /\ UNCHANGED <<resume, initial, versions, overrides_file, req>>

InitScore ==
    /\ resume \in ResumePool
    /\ initial = resume
    /\ versions = 1
    /\ overrides_file = NoOverrides
    /\ req \in AtsScoreRequests
    /\ resp = Idle

NextScore == AtsScore

SpecScore == InitScore /\ [][NextScore]_vars

Scored == resp.op = "ats_score" /\ resp.status = 200

-----------------------------------------------------------------------------
(* The truth guardrail applied to given suggestions                        *)

PatchOperation(section, role_id, action, after_index, bullet_index, new_bullet, skill) ==
    [section |-> section, role_id |-> role_id, action |-> action,
     after_index |-> after_index, bullet_index |-> bullet_index,
     new_bullet |-> new_bullet, skill |-> skill]

OverrideSkill(skill, target_roles, proof_bullets) ==
    [skill |-> skill, level |-> "worked_with", target_roles |-> target_roles,
     proof_bullets |-> proof_bullets]

OverridesRequest(skills) == [present |-> TRUE, skills |-> skills]

TRUTH_MODES == {"off", "balanced", "strict"}

\* the longest list of suggestions handed to the guardrail
MaxSuggestions == 2

SeqsUpTo(S, n) == UNION {[1..k -> S] : k \in 0..n}

GUARD_SKILLS == {"", " kubernetes ", "SQL"}

GUARD_PATCHES ==
    {PatchOperation("experience", "r1", "insert", <<>>, <<>>,
                    "Worked with " \o sk, sk) : sk \in GUARD_SKILLS}
    \cup
    {PatchOperation("technical_skills", "", "insert", <<>>, <<>>,
                    "Exposure to " \o sk, sk) : sk \in GUARD_SKILLS}

GUARD_RESUMES ==
    {ResumeState("", <<>>, <<>>),
     ResumeState("", <<"Python">>,
                 <<Role("r1", "Acme", "Data Engineer", <<"Built Tableau dashboards">>)>>),
     ResumeState("Data engineer.\nWorked with SCADA systems", <<"Python, SQL", "k8s">>,
                 <<Role("r2", "Zeta", "Analyst",
                        <<"Tuned MySQL queries", "Used Python daily">>),
                   Role("r1", "Acme", "Data Engineer", <<"Wrote Python jobs">>)>>)}

GUARD_JDS ==
    {"Required: SQL, Python\nPreferred: Tableau, Kubernetes",
     "Qualifications\n  Kubernetes, python\n\nPreferred\nMySQL, PYTHON and DBT",
     "Great team"}

GUARD_OVERRIDES ==
    {NoOverrides,
     OverridesRequest(<<OverrideSkill(" KUBERNETES ", <<"r1">>,
                                      <<"Ran Kubernetes clusters in production">>)>>),
     OverridesRequest(<<OverrideSkill("sql", <<"r2">>, <<"Wrote SQL reports weekly">>),
                        OverrideSkill("Tableau", <<>>, <<>>)>>)}

\* the reports the scorer returns for the resume
GuardReports(state) ==
    {[jd_text |-> jd,
      ats_report |-> score_resume_against_jd(jd, state, DEFAULT_TOP_N, strict)] :
        jd \in GUARD_JDS, strict \in BOOLEAN}

GuardRequests(state) ==
    {[op |-> "guardrails", suggestions |-> sugg, ats_report |-> rep.ats_report,
      overrides |-> ovr, jd_text |-> rep.jd_text] :
        sugg \in SeqsUpTo(GUARD_PATCHES, MaxSuggestions), rep \in GuardReports(state),
        ovr \in GUARD_OVERRIDES}

guardrails_result(request, state, truth_mode) ==
    apply_truth_guardrails(request.suggestions, request.ats_report, request.overrides,
                           truth_mode, state, request.jd_text)

\* apply_truth_guardrails is run on the given inputs, once under each truth mode
Guardrails ==
    /\ req.op = "guardrails"
    /\ resp = Idle
    /\ resp' = [op |-> "guardrails",
                result |-> [m \in TRUTH_MODES |-> guardrails_result(req, resume, m)]]
    /\ UNCHANGED <<resume, initial, versions, overrides_file, req>>

InitGuard ==
    /\ resume \in GUARD_RESUMES
    /\ initial = resume
    /\ versions = 1
    /\ overrides_file = NoOverrides
    /\ req \in GuardRequests(resume)
    /\ resp = Idle

NextGuard == Guardrails

SpecGuard == InitGuard /\ [][NextGuard]_vars

-----------------------------------------------------------------------------
(* POST /resumes/{id}/overrides and POST /resumes/{id}/apply-patches       *)

\* the largest number of stored versions of the resume
MaxVersions == 3

APPLY_RESUMES ==
    {ResumeState("", <<"Python">>,
                 <<Role("r1", "Acme", "Data Engineer", <<"Built Tableau dashboards">>)>>),
     ResumeState("Data engineer.", <<>>,
                 <<Role("r2", "Zeta", "Analyst",
                        <<"Tuned MySQL queries", "Used Python daily">>),
                   Role("r1", "Acme", "Data Engineer", <<>>)>>)}

SkillsInsertKubernetes ==
    PatchOperation("technical_skills", "", "insert", <<>>, <<>>,
                   "Exposure to Kubernetes", "Kubernetes")

ExperienceInsertKubernetes ==
    PatchOperation("experience", "r1", "insert", <<>>, <<>>,
                   "- Deployed services\ton Kubernetes ", "Kubernetes")

ExperienceInsertNoSkill ==
    PatchOperation("experience", "r1", "insert", <<-1>>, <<>>,
                   "1. Wrote SQL for Tableau", "")

ExperienceReplaceBlankSkill ==
    PatchOperation("experience", "r1", "replace", <<>>, <<0>>, "Ran DBT models", " ")

ExperienceInsertPython ==
    PatchOperation("experience", "r1", "insert", <<>>, <<>>,
                   "Automated checks in Python", "python")

ExperienceReplaceOutOfRange ==
    PatchOperation("experience", "r1", "replace", <<>>, <<5>>, "Used Python", "Python")

SkillsReplace ==
    PatchOperation("technical_skills", "", "replace", <<>>, <<0>>, "Python 3", "Python")

ExperienceUnknownRole ==
    PatchOperation("experience", "r9", "insert", <<>>, <<>>, "Used Python", "Python")

APPLY_BATCHES ==
    {<<SkillsInsertKubernetes>>,
     <<ExperienceInsertKubernetes>>,
     <<ExperienceInsertNoSkill>>,
     <<ExperienceReplaceBlankSkill>>,
     <<ExperienceInsertPython, ExperienceInsertKubernetes>>,
     <<ExperienceInsertPython, ExperienceReplaceOutOfRange>>,
     <<SkillsReplace>>,
     <<ExperienceUnknownRole>>}

ApplyPatchesRequests ==
    {[op |-> "apply_patches", resume_id |-> RESUME_ID, patches |-> batch,
      truth_mode |-> mode, export_docx |-> FALSE] :
        batch \in APPLY_BATCHES, mode \in TRUTH_MODES}
    \cup
    {[op |-> "apply_patches", resume_id |-> id, patches |-> <<ExperienceInsertPython>>,
      truth_mode |-> "balanced", export_docx |-> export] :
        id \in {RESUME_ID, "resume-9"}, export \in BOOLEAN}

OVERRIDE_PAYLOADS ==
    {OverridesRequest(<<OverrideSkill(" SQL", <<"r1">>, <<"Wrote SQL reports weekly">>)>>)}

SaveOverridesRequests ==
    {[op |-> "save_overrides", resume_id |-> id, payload |-> ovr] :
        id \in {RESUME_ID, "resume-9"}, ovr \in OVERRIDE_PAYLOADS}

\* save_resume_overrides: the payload replaces the stored overrides of the resume
SaveOverrides(request) ==
    /\ IF request.resume_id # RESUME_ID
       THEN /\ resp' = [op |-> "save_overrides", status |-> 404]
            /\ UNCHANGED overrides_file
       ELSE /\ overrides_file' = request.payload
            /\ resp' = [op |-> "save_overrides", status |-> 200]
    /\ req' = request
    /\ UNCHANGED <<resume, initial, versions>>

ApplyPatchesResponse(status, detail, version, docx) ==
    [op |-> "apply_patches", status |-> status, detail |-> detail,
     version |-> version, resume_docx |-> docx]

\* the response of the handler once the state is loaded and the batch has gone
\* through validate_patches_truth_mode (message) and apply_patches_to_state (outcome)
apply_patches_response(request, message, outcome, template_exists) ==
    IF message # "" THEN ApplyPatchesResponse(422, message, <<>>, FALSE)
    ELSE IF outcome.error # "" THEN ApplyPatchesResponse(422, outcome.error, <<>>, FALSE)
    ELSE IF request.export_docx /\ ~template_exists
    THEN ApplyPatchesResponse(400, "DOCX template not found", <<>>, FALSE)
    ELSE ApplyPatchesResponse(200, "", <<versions + 1>>, request.export_docx)

\* the handler appending whatever state the loop left once validation passed
ApplyPatchesLoaded_append_partial(request, message, outcome, template_exists) ==
    /\ resp' = apply_patches_response(request, message, outcome, template_exists)
    /\ IF message = ""
       THEN resume' = outcome.state /\ versions' = versions + 1
       ELSE UNCHANGED <<resume, versions>>

\* the rest of apply_patches: a new version is appended only when both steps passed
ApplyPatchesLoaded(request, message, outcome, template_exists) ==
    /\ resp' = apply_patches_response(request, message, outcome, template_exists)
    /\ IF message = "" /\ outcome.error = ""
       THEN resume' = outcome.state /\ versions' = versions + 1
       ELSE UNCHANGED <<resume, versions>>

\* apply_patches: load the latest state and the overrides, validate, apply, append
ApplyPatches(request, template_exists) ==
    /\ versions < MaxVersions
    /\ req' = request
    /\ IF request.resume_id # RESUME_ID
       THEN /\ resp' = ApplyPatchesResponse(404, "resume_id not found", <<>>, FALSE)
            /\ UNCHANGED <<resume, versions>>
       ELSE ApplyPatchesLoaded(
                request,
                validate_patches_truth_mode(request.patches, resume, overrides_file,
                                            request.truth_mode),
                apply_patches_to_state(resume, request.patches),
                template_exists)
    /\ UNCHANGED <<initial, overrides_file>>

Init ==
    /\ resume \in APPLY_RESUMES
    /\ initial = resume
    /\ versions = 1
    /\ overrides_file = NoOverrides
    /\ req = Idle
    /\ resp = Idle

Next ==
    \/ \E request \in SaveOverridesRequests : SaveOverrides(request)
    \/ \E request \in ApplyPatchesRequests, template_exists \in BOOLEAN :
          ApplyPatches(request, template_exists)

Spec == Init /\ [][Next]_vars

-----------------------------------------------------------------------------
(* Properties of the scorer, under SpecScore                               *)

RECURSIVE AllBullets(_, _)
AllBullets(experience, r) ==
    IF r > Len(experience) THEN <<>>
    ELSE experience[r].bullets \o AllBullets(experience, r + 1)

\* a token-boundary, case-insensitive occurrence of kw in some line of lines
OccursIn(lines, kw) == \E i \in 1..Len(lines) : has_token(lines[i], kw)

\* direct evidence anywhere: technical skills, summary lines or any experience bullet
EvidenceAnywhere(state, kw) ==
    \/ OccursIn(state.technical_skills, kw)
    \/ OccursIn(SummaryLines(state), kw)
    \/ OccursIn(AllBullets(state.experience, 1), kw)

\* the gated tokens hit in the JD of the request that the resume does not evidence
GateLacking ==
    {i \in 1..Len(must_have_gates(req.jd_text)) :
        ~EvidenceAnywhere(resume, must_have_gates(req.jd_text)[i])}

\* C8: the must-have gate caps the score (capped_reason set, missing_must_have
\* non-empty, ats_score <= 40) if and only if some gated token hit in the JD has no
\* direct evidence anywhere in the resume, the summary included; otherwise
\* capped_reason and missing_must_have are absent and ats_score is the uncapped blend.
C8_MustHaveGate ==
    Scored =>
        /\ (/\ resp.body.capped_reason # <<>>
            /\ resp.body.missing_must_have # <<>>
            /\ resp.body.missing_must_have[1] # <<>>
            /\ resp.body.ats_score <= 40) <=> (GateLacking # {})
        /\ GateLacking = {} =>
            /\ resp.body.capped_reason = <<>>
            /\ resp.body.missing_must_have = <<>>
            /\ resp.body.ats_score =
                 Round(resp.body.keyword_score * 6 + resp.body.role_score * 4, 10)

\* a gated token of the JD is evidenced by the summary alone, and the score is not capped
C8_Witness ==
    /\ Scored
    /\ resp.body.capped_reason = <<>>
    /\ \E i \in 1..Len(must_have_gates(req.jd_text)) :
          /\ OccursIn(SummaryLines(resume), must_have_gates(req.jd_text)[i])
          /\ ~OccursIn(resume.technical_skills, must_have_gates(req.jd_text)[i])
          /\ ~OccursIn(AllBullets(resume.experience, 1), must_have_gates(req.jd_text)[i])

\* C9: keyword_score, role_score and ats_score are integers in [0,100].
C9_ScoresInRange ==
    Scored =>
        /\ resp.body.keyword_score \in 0..100
        /\ resp.body.role_score \in 0..100
        /\ resp.body.ats_score \in 0..100

\* a full score: every extracted skill is directly evidenced and nothing is capped
C9_Witness ==
    /\ Scored
    /\ resp.body.required # <<>>
    /\ resp.body.keyword_score = 100
    /\ resp.body.role_score = 100
    /\ resp.body.ats_score = 100

\* the covered weight of a coverage list in halves: direct 1.0, partial 0.5 unless strict
CoveredHalves(coverage, strict_mode) ==
    2 * Cardinality({i \in 1..Len(coverage) : coverage[i].status = "direct"})
      + (IF strict_mode THEN 0
         ELSE Cardinality({i \in 1..Len(coverage) : coverage[i].status = "partial"}))

KeywordFormula(required, preferred, strict_mode) ==
    IF preferred = <<>>
    THEN IF required = <<>> THEN 0
         ELSE Round(CoveredHalves(required, strict_mode) * 100, 2 * Len(required))
    ELSE IF required = <<>>
    THEN Round(CoveredHalves(preferred, strict_mode) * 30, 2 * Len(preferred))
    ELSE Round(CoveredHalves(required, strict_mode) * 70 * Len(preferred)
                 + CoveredHalves(preferred, strict_mode) * 30 * Len(required),
               2 * Len(required) * Len(preferred))

\* C10: keyword_score is round(required_ratio*100) without preferred skills and
\* round(required_ratio*70 + preferred_ratio*30) with them, a ratio being (direct +
\* 0.5 partial, partial only when not strict) / length and 0 for an empty list; so it
\* is at most 30 when only preferred skills were extracted and 0 when none were.
C10_KeywordScore ==
    Scored =>
        /\ resp.body.keyword_score =
             KeywordFormula(resp.body.required, resp.body.preferred, req.strict_mode)
        /\ (resp.body.required = <<>> /\ resp.body.preferred # <<>>)
             => resp.body.keyword_score <= 30
        /\ (resp.body.required = <<>> /\ resp.body.preferred = <<>>)
             => resp.body.keyword_score = 0

\* both lists are non-empty and a partial (synonym) match earns its half credit
C10_Witness ==
    /\ Scored
    /\ resp.body.required # <<>>
    /\ \E i \in 1..Len(resp.body.preferred) : resp.body.preferred[i].status = "partial"
    /\ resp.body.keyword_score > 0
    /\ resp.body.keyword_score < 100

-----------------------------------------------------------------------------
(* Properties of the truth guardrail, under SpecGuard                      *)

Guarded == resp.op = "guardrails"

Range(seq) == {seq[i] : i \in 1..Len(seq)}

Allowed(truth_mode) == resp.result[truth_mode].patches

Blocked(truth_mode) == resp.result[truth_mode].blocked

\* the patch is withheld from the allowed list of the mode
Withheld(patch, truth_mode) == patch \notin Range(Allowed(truth_mode))

\* the skill of the patch: trimmed, compared case-insensitively
KeyOf(patch) == Lower(Strip(patch.skill))

\* the report lists the skill of the patch as a missing required skill
MissingRequired(patch) ==
    \E j \in 1..Len(req.ats_report.missing_required) :
        Lower(req.ats_report.missing_required[j]) = KeyOf(patch)

\* the overrides given to the guardrail hold an entry for the skill of the patch
OverrideExists(patch) ==
    \E j \in 1..Len(req.overrides.skills) :
        Lower(Strip(req.overrides.skills[j].skill)) = KeyOf(patch)

\* the report marks the skill direct, or the resume evidences it directly
DirectEvidence(patch) ==
    \/ \E j \in 1..Len(req.ats_report.required) :
          /\ req.ats_report.required[j].direct_from_resume
          /\ Lower(Strip(req.ats_report.required[j].skill)) = KeyOf(patch)
    \/ KeyOf(patch) # "" /\ EvidenceAnywhere(resume, KeyOf(patch))

\* C1: truth modes are ordered by permissiveness: `off` blocks nothing and returns
\* the suggestions as given, every patch withheld under `balanced` is withheld under
\* `strict`, and every patch allowed under `strict` is allowed under `balanced` and
\* under `off`.
C1_TruthModeMonotone ==
    Guarded =>
        /\ Blocked("off") = <<>>
        /\ Allowed("off") = req.suggestions
        /\ \A i \in 1..Len(req.suggestions) :
              Withheld(req.suggestions[i], "balanced")
                  => Withheld(req.suggestions[i], "strict")
        /\ Len(Blocked("balanced")) <= Len(Blocked("strict"))
        /\ Range(Allowed("strict")) \subseteq Range(Allowed("balanced"))
        /\ Range(Allowed("balanced")) \subseteq Range(Allowed("off"))

\* one patch is withheld under balanced and strict, another under strict only
C1_Witness ==
    /\ Guarded
    /\ \E i, j \in 1..Len(req.suggestions) :
          /\ Withheld(req.suggestions[i], "balanced")
          /\ Withheld(req.suggestions[i], "strict")
          /\ ~Withheld(req.suggestions[j], "balanced")
          /\ Withheld(req.suggestions[j], "strict")
          /\ ~Withheld(req.suggestions[j], "off")

\* C4: under `balanced` a patch is blocked if and only if its section is experience,
\* its skill (trimmed, case-insensitive) is in the report's missing_required and no
\* override exists for the skill; a technical_skills patch is never blocked.
C4_BalancedRule ==
    Guarded =>
        /\ \A i \in 1..Len(req.suggestions) :
              Withheld(req.suggestions[i], "balanced")
                  <=> (/\ req.suggestions[i].section = "experience"
                       /\ MissingRequired(req.suggestions[i])
                       /\ ~OverrideExists(req.suggestions[i]))
        /\ \A i \in 1..Len(req.suggestions) :
              req.suggestions[i].section = "technical_skills"
                  => ~Withheld(req.suggestions[i], "balanced")
        /\ \A j \in 1..Len(Blocked("balanced")) :
              Blocked("balanced")[j].recommended_action = "add_override"

\* an experience patch whose untrimmed skill is a missing required skill without an
\* override is blocked under balanced, while a technical_skills patch for the same
\* kind of skill passes
C4_Witness ==
    /\ Guarded
    /\ \E i, j \in 1..Len(req.suggestions) :
          /\ req.suggestions[i].section = "experience"
          /\ req.suggestions[i].skill # Strip(req.suggestions[i].skill)
          /\ Withheld(req.suggestions[i], "balanced")
          /\ req.suggestions[j].section = "technical_skills"
          /\ MissingRequired(req.suggestions[j])
          /\ ~OverrideExists(req.suggestions[j])
          /\ ~Withheld(req.suggestions[j], "balanced")

\* C5: under `strict` a technical_skills patch is blocked if and only if its skill
\* has neither direct evidence in the resume (marked direct in the report, or found
\* by the resume-wide evidence search) nor an override; a blocked one is reported in
\* blocked with recommended_action downgrade_to_exposure and is not among the
\* returned patches.
C5_StrictSkillsRule ==
    Guarded =>
        \A i \in 1..Len(req.suggestions) :
            req.suggestions[i].section = "technical_skills" =>
                /\ Withheld(req.suggestions[i], "strict")
                      <=> ~(DirectEvidence(req.suggestions[i])
                            \/ OverrideExists(req.suggestions[i]))
                /\ Withheld(req.suggestions[i], "strict") =>
                      \E j \in 1..Len(Blocked("strict")) :
                          /\ Blocked("strict")[j].skill
                                = SkillOrUnknown(req.suggestions[i].skill)
                          /\ Blocked("strict")[j].recommended_action
                                = "downgrade_to_exposure"
                          /\ Blocked("strict")[j].example_override_payload = <<>>

\* strict blocks a technical_skills patch for a skill without evidence or override
\* and lets through one whose skill the resume evidences though the report does not
\* list it
C5_Witness ==
    /\ Guarded
    /\ \E i, j \in 1..Len(req.suggestions) :
          /\ req.suggestions[i].section = "technical_skills"
          /\ Withheld(req.suggestions[i], "strict")
          /\ req.suggestions[j].section = "technical_skills"
          /\ ~OverrideExists(req.suggestions[j])
          /\ req.ats_report.required = <<>>
          /\ ~Withheld(req.suggestions[j], "strict")

\* the elements of seq at the positions in K, in order
RECURSIVE Pick(_, _, _)
Pick(seq, K, i) ==
    IF i > Len(seq) THEN <<>>
    ELSE (IF i \in K THEN <<seq[i]>> ELSE <<>>) \o Pick(seq, K, i + 1)

\* the blocked entries answer the patches one for one, in order
Answers(blocked, patches) ==
    /\ Len(blocked) = Len(patches)
    /\ \A j \in 1..Len(blocked) : blocked[j].skill = SkillOrUnknown(patches[j].skill)

\* C6: in every truth mode the guardrail partitions its input: each suggested patch
\* is either returned unchanged in the allowed list or answered by exactly one blocked
\* entry, so len(allowed) + len(blocked) = len(suggestions); the allowed list is an
\* order-preserving subsequence of the input and the blocked list follows input order.
C6_Partition ==
    Guarded =>
        \A m \in TRUTH_MODES :
            /\ Len(Allowed(m)) + Len(Blocked(m)) = Len(req.suggestions)
            /\ \E K \in SUBSET (1..Len(req.suggestions)) :
                  /\ Allowed(m) = Pick(req.suggestions, K, 1)
                  /\ Answers(Blocked(m),
                             Pick(req.suggestions, (1..Len(req.suggestions)) \ K, 1))

\* strict mode splits two suggestions into one allowed patch and one blocked entry
C6_Witness ==
    /\ Guarded
    /\ Len(req.suggestions) = 2
    /\ Len(Allowed("strict")) = 1
    /\ Len(Blocked("strict")) = 1
    /\ Allowed("strict") = <<req.suggestions[2]>>


\* the suggestions the mode withheld, in input order
WithheldPatches(truth_mode) ==
    LET withheld(p) == Withheld(p, truth_mode)
    IN SelectSeq(req.suggestions, withheld)

\* action and payload of a blocked entry agree with the section of its patch
ActionFits(entry, patch) ==
    /\ entry.recommended_action = "add_override" <=> patch.section = "experience"
    /\ entry.recommended_action = "downgrade_to_exposure"
          <=> patch.section = "technical_skills"
    /\ entry.example_override_payload # <<>>
          <=> entry.recommended_action = "add_override"

\* the example payload: one skill entry, level worked_with, one proof bullet
PayloadShape(entry) ==
    /\ Len(entry.example_override_payload[1].skills) = 1
    /\ entry.example_override_payload[1].skills[1].skill = entry.skill
    /\ entry.example_override_payload[1].skills[1].level = "worked_with"
    /\ Len(entry.example_override_payload[1].skills[1].proof_bullets) = 1

TargetRoles(entry) == entry.example_override_payload[1].skills[1].target_roles

\* exactly one target role, the head of suggested_role_ids
OneTargetRole(entry) ==
    /\ Len(TargetRoles(entry)) = 1
    /\ entry.suggested_role_ids # <<>>
    /\ TargetRoles(entry)[1] = entry.suggested_role_ids[1]

\* C7 as stated: every blocked entry has add_override exactly for an experience patch
\* and downgrade_to_exposure exactly for a technical_skills patch, carries a payload
\* if and only if the action is add_override, and the payload has exactly one skill
\* entry of level worked_with, one proof bullet and exactly one target role, the head
\* of suggested_role_ids.
C7_AlwaysOneTargetRole ==
    Guarded =>
        \A m \in TRUTH_MODES :
            \A j \in 1..Len(Blocked(m)) :
                /\ ActionFits(Blocked(m)[j], WithheldPatches(m)[j])
                /\ Blocked(m)[j].example_override_payload # <<>> =>
                      /\ PayloadShape(Blocked(m)[j])
                      /\ OneTargetRole(Blocked(m)[j])

\* C7: every blocked entry has add_override exactly for an experience patch and
\* downgrade_to_exposure exactly for a technical_skills patch, carries a payload if
\* and only if the action is add_override, and the payload has exactly one skill
\* entry of level worked_with and one proof bullet; its target roles are the head of
\* suggested_role_ids when the resume has an experience role, and none when the
\* resume has no role (suggested_role_ids is then empty).
C7_BlockedSuggestion ==
    Guarded =>
        \A m \in TRUTH_MODES :
            \A j \in 1..Len(Blocked(m)) :
                /\ ActionFits(Blocked(m)[j], WithheldPatches(m)[j])
                /\ Blocked(m)[j].suggested_role_ids = <<>> <=> resume.experience = <<>>
                /\ Blocked(m)[j].example_override_payload # <<>> =>
                      /\ PayloadShape(Blocked(m)[j])
                      /\ IF resume.experience = <<>>
                         THEN TargetRoles(Blocked(m)[j]) = <<>>
                         ELSE OneTargetRole(Blocked(m)[j])

\* strict mode answers an experience patch with add_override and a payload naming
\* the first of two suggested roles, and a technical_skills patch with
\* downgrade_to_exposure and no payload
C7_Witness ==
    /\ Guarded
    /\ Len(Blocked("strict")) = 2
    /\ Blocked("strict")[1].recommended_action = "add_override"
    /\ Len(Blocked("strict")[1].suggested_role_ids) = 2
    /\ TargetRoles(Blocked("strict")[1]) = <<Blocked("strict")[1].suggested_role_ids[1]>>
    /\ Blocked("strict")[2].recommended_action = "downgrade_to_exposure"
    /\ Blocked("strict")[2].example_override_payload = <<>>


-----------------------------------------------------------------------------
(* Properties of truth validation and ApplyPatches, under Spec             *)

\* the last request was an ApplyPatches batch that was accepted and stored
Accepted == resp.op = "apply_patches" /\ resp.status \in {200, 400}

\* the stored overrides hold an entry for the skill
OverrideStored(ovr, skill) ==
    \E j \in 1..Len(ovr.skills) : Lower(Strip(ovr.skills[j].skill)) = Lower(Strip(skill))

\* C2: under balanced or strict, over any sequence of ApplyPatches requests, an
\* experience patch whose skill has no override and had no direct evidence in the
\* resume before the sequence started is never accepted and applied, not even after
\* a technical_skills insert that mentions the skill was applied first.
C2_NoLaundering ==
    (Accepted /\ req.truth_mode # "off") =>
        \A i \in 1..Len(req.patches) :
            (/\ req.patches[i].section = "experience"
             /\ Strip(req.patches[i].skill) # "")
                => \/ OverrideStored(overrides_file, req.patches[i].skill)
                   \/ EvidenceAnywhere(initial, Lower(Strip(req.patches[i].skill)))

\* the skills a patch speaks for: its skill field, otherwise those found in new_bullet
AssociatedSkills(patch) ==
    IF Strip(patch.skill) # "" THEN {patch.skill}
    ELSE Range(find_skills_in_text(patch.new_bullet))

\* the skill has neither an override nor direct evidence anywhere in the resume
Unsupported(skill, state, ovr) ==
    /\ ~OverrideStored(ovr, skill)
    /\ ~EvidenceAnywhere(state, Lower(Strip(skill)))

\* the experience patches of the batch speak for an unsupported skill
OffendingSkills(patches, state, ovr) ==
    UNION {{sk \in AssociatedSkills(patches[i]) : Unsupported(sk, state, ovr)} :
              i \in {k \in 1..Len(patches) : patches[k].section = "experience"}}

\* C3: with a truth mode other than off, an ApplyPatches batch fails validation,
\* with an error naming the skill, if and only if some experience patch of the batch
\* has an associated skill (its skill field, otherwise every skill found in
\* new_bullet) with neither an override nor direct resume-wide evidence; and then no
\* patch of the batch is applied and no version is stored.
C3_AllOrNothing ==
    [][(req'.op = "apply_patches" /\ resp'.status # 404) =>
          /\ (resp'.status = 422 /\ SubSeq(resp'.detail, 1, 10) = "Truth mode")
                <=> (/\ req'.truth_mode # "off"
                     /\ OffendingSkills(req'.patches, resume, overrides_file) # {})
          /\ (resp'.status = 422 /\ SubSeq(resp'.detail, 1, 10) = "Truth mode")
                => /\ \E sk \in OffendingSkills(req'.patches, resume, overrides_file) :
                          resp'.detail = validation_error(req'.truth_mode, sk)
                   /\ resume' = resume
                   /\ versions' = versions]_vars


-----------------------------------------------------------------------------
(* Further properties of the scorer, under SpecScore                       *)

\* the number of items of a coverage list whose status is direct
DirectCount(coverage) ==
    Cardinality({i \in 1..Len(coverage) : coverage[i].status = "direct"})

\* C11: role_score is round(direct required / required * 100), a partial match
\* counting for nothing, or keyword_score when no required skill was extracted; and
\* ats_score is round(keyword_score*0.6 + role_score*0.4) before the must-have cap,
\* which lowers it to at most 40.
C11_RoleScoreAndBlend ==
    Scored =>
        /\ resp.body.role_score =
             IF resp.body.required = <<>> THEN resp.body.keyword_score
             ELSE Round(DirectCount(resp.body.required) * 100, Len(resp.body.required))
        /\ resp.body.ats_score =
             IF resp.body.capped_reason = <<>>
             THEN Round(resp.body.keyword_score * 6 + resp.body.role_score * 4, 10)
             ELSE Min2(40, Round(resp.body.keyword_score * 6 + resp.body.role_score * 4, 10))

\* a required skill is matched by a synonym only: it earns keyword credit and no role
\* credit, and the uncapped score lies between the two
C11_Witness ==
    /\ Scored
    /\ resp.body.capped_reason = <<>>
    /\ \E i \in 1..Len(resp.body.required) : resp.body.required[i].status = "partial"
    /\ DirectCount(resp.body.required) > 0
    /\ resp.body.role_score < resp.body.ats_score
    /\ resp.body.ats_score < resp.body.keyword_score


CoverageItems == Range(resp.body.required) \cup Range(resp.body.preferred)

\* some evidence record of the item is an exact token-boundary match of its skill
ExactMatchIn(item) ==
    \E i \in 1..Len(item.evidence) :
        has_token(item.evidence[i].snippet, Lower(item.skill))

\* every evidence record of the item matches a synonym of its skill
AllSynonymMatches(item) ==
    \A i \in 1..Len(item.evidence) :
        \E k \in 1..Len(SYNONYMS(Lower(item.skill))) :
            has_token(item.evidence[i].snippet, SYNONYMS(Lower(item.skill))[k])

\* C12: a SkillCoverage has status direct if and only if its evidence contains an
\* exact token-boundary match of the skill (and then direct_from_resume is true),
\* status missing if and only if its evidence is empty, and status partial only when
\* strict_mode is false, there is no exact match and every evidence record is a
\* synonym match; with strict_mode true no item is partial.
C12_CoverageStatus ==
    Scored =>
        \A item \in CoverageItems :
            /\ item.status \in {"direct", "partial", "missing"}
            /\ (item.status = "direct") <=> ExactMatchIn(item)
            /\ (item.status = "direct") <=> EvidenceAnywhere(resume, Lower(item.skill))
            /\ item.status = "direct" => item.direct_from_resume
            /\ (item.status = "missing") <=> (item.evidence = <<>>)
            /\ item.status = "partial" =>
                    /\ ~req.strict_mode
                    /\ ~ExactMatchIn(item)
                    /\ AllSynonymMatches(item)
            /\ req.strict_mode => item.status # "partial"

\* one report holds a direct, a partial and a missing item
C12_Witness ==
    /\ Scored
    /\ ~req.strict_mode
    /\ \E a, b, c \in CoverageItems :
           /\ a.status = "direct" /\ b.status = "partial" /\ c.status = "missing"
           /\ Len(b.evidence) > 0


\* scenario 1: the one-line job description, the default cap, and a resume whose only
\* content is "Python" in technical_skills
Scenario1 ==
    /\ req.resume_id = RESUME_ID
    /\ req.jd_text = "Required: SQL, Python. Preferred: Tableau."
    /\ req.top_n_skills = DEFAULT_TOP_N
    /\ resume = ResumeState("", <<"Python">>, <<>>)

Statuses(coverage) == [i \in 1..Len(coverage) |-> coverage[i].status]

\* C15 as stated: scenario 1 yields required = [SQL, Python] with SQL missing and
\* Python direct, and missing_required = ["SQL"].
C15_Scenario1AsStated ==
    Scored /\ Scenario1 =>
        /\ SkillNames(resp.body.required) = <<"SQL", "Python">>
        /\ Statuses(resp.body.required) = <<"missing", "direct">>
        /\ resp.body.missing_required = <<"SQL">>

\* C15: scenario 1 yields required = [SQL, Python, Tableau] with SQL missing, Python
\* direct and Tableau missing, preferred = [] and missing_required = ["SQL", "Tableau"]:
\* the job description is one line, its first header keyword hit is "required", and
\* every skill of the line goes to the required list.
C15_Scenario1 ==
    Scored /\ Scenario1 =>
        /\ SkillNames(resp.body.required) = <<"SQL", "Python", "Tableau">>
        /\ Statuses(resp.body.required) = <<"missing", "direct", "missing">>
        /\ resp.body.preferred = <<>>
        /\ resp.body.missing_required = <<"SQL", "Tableau">>

C15_Witness == Scored /\ Scenario1


-----------------------------------------------------------------------------
(* extract_skills_from_jd on its own                                       *)

\* the largest number of lines of a job description
MaxJdLines == 3

JD_LINES ==
    {"Required: SQL, Python",
     "Preferred: Tableau, python, SQL",
     "PYTHON and Sql, k8s",
     "Responsibilities: build DBT models",
     "Preferred Qualifications"}

ExtractRequests ==
    {[op |-> "extract_skills", jd_text |-> Join(lines, "\n"), top_n_skills |-> n] :
        lines \in SeqsUpTo(JD_LINES, MaxJdLines), n \in (-1)..MaxTopN}

\* the extractor is run on the pending job description
ExtractSkills ==
    /\ req.op = "extract_skills"
    /\ resp = Idle
    /\ resp' = [op |-> "extract_skills",
                skills |-> extract_skills_from_jd(req.jd_text, req.top_n_skills)]
    /\ UNCHANGED <<resume, initial, versions, overrides_file, req>>

InitExtract ==
    /\ resume = ResumeState("", <<>>, <<>>)
    /\ initial = resume
    /\ versions = 1
    /\ overrides_file = NoOverrides
    /\ req \in ExtractRequests
    /\ resp = Idle

NextExtract == ExtractSkills

SpecExtract == InitExtract /\ [][NextExtract]_vars

Extracted == resp.op = "extract_skills"


-----------------------------------------------------------------------------
(* Properties of the extractor, under SpecExtract                          *)

\* the lists the line scan appended to, before any dedupe
Appended == ScanLines(StrippedLines(req.jd_text), 1, "required", <<>>, <<>>)

\* no two entries of seq are equal case-insensitively
NoRepeat(seq) ==
    \A i, j \in 1..Len(seq) : Lower(seq[i]) = Lower(seq[j]) => i = j

\* the position at which skill was first appended to seq, ignoring case (0: never)
FirstAppended(seq, skill) ==
    IF \E i \in 1..Len(seq) : Lower(seq[i]) = Lower(skill)
    THEN CHOOSE i \in 1..Len(seq) :
             /\ Lower(seq[i]) = Lower(skill)
             /\ \A j \in 1..(i - 1) : Lower(seq[j]) # Lower(skill)
    ELSE 0

\* list holds entries of seq, each as first appended, in the order of first appending
InAppendedOrder(list, seq) ==
    /\ \A i \in 1..Len(list) :
           /\ FirstAppended(seq, list[i]) > 0
           /\ list[i] = seq[FirstAppended(seq, list[i])]
    /\ \A i, j \in 1..Len(list) :
           i < j => FirstAppended(seq, list[i]) < FirstAppended(seq, list[j])

DedupedInOrder(skills, appended) ==
    /\ NoRepeat(skills.required \o skills.preferred)
    /\ InAppendedOrder(skills.required, appended.required)
    /\ InAppendedOrder(skills.preferred, appended.preferred)
    /\ \A i \in 1..Len(skills.preferred) :
           FirstAppended(appended.required, skills.preferred[i]) = 0

\* C13: the lists of extract_skills_from_jd hold no two entries that are equal
\* case-insensitively, within required, within preferred, or across the two (a skill
\* found in both sections is in required only), and each list keeps the order in
\* which its entries were first appended.
C13_NoDuplicates ==
    Extracted => DedupedInOrder(resp.skills, Appended)

\* a skill written in two spellings in both sections is listed once, under required,
\* and the required list is not in dictionary order
C13_Witness ==
    /\ Extracted
    /\ \E i \in 1..Len(Appended.required), j \in 1..Len(Appended.preferred) :
           Lower(Appended.required[i]) = Lower(Appended.preferred[j])
    /\ Len(Appended.required) > Len(resp.skills.required)
    /\ resp.skills.preferred # <<>>
    /\ req.top_n_skills = 0


\* the deduped required skills, before the cap
FullRequired(appended) == dedupe_preserve(appended.required)

\* the deduped preferred skills that are not required, before the cap
FullPreferred(appended) ==
    LET optional(s) == FirstAppended(appended.required, s) = 0
    IN SelectSeq(dedupe_preserve(appended.preferred), optional)

Prefix(seq, n) == SubSeq(seq, 1, Min2(Len(seq), Max2(n, 0)))

CappedAt(skills, cap, required, preferred) ==
    IF cap > 0
    THEN /\ Len(skills.required) + Len(skills.preferred) <= cap
         /\ skills.required = Prefix(required, cap)
         /\ skills.preferred = Prefix(preferred, cap - Len(skills.required))
    ELSE /\ skills.required = required
         /\ skills.preferred = preferred

\* C14: with a positive cap the two lists together hold at most cap entries,
\* required is the first min(cap, n) of the deduped required skills and preferred is
\* the prefix of the preferred list that fits in cap - len(required), empty when
\* required alone fills the cap; with a cap of 0 or a negative cap nothing is
\* truncated.
C14_Cap ==
    Extracted =>
        CappedAt(resp.skills, req.top_n_skills,
                 FullRequired(Appended), FullPreferred(Appended))

\* the cap leaves room for some of the preferred skills, not for all of them
C14_Witness ==
    /\ Extracted
    /\ req.top_n_skills > 0
    /\ resp.skills.required # <<>>
    /\ Len(resp.skills.required) < req.top_n_skills
    /\ resp.skills.preferred # <<>>
    /\ Len(resp.skills.preferred) < Len(FullPreferred(Appended))


-----------------------------------------------------------------------------
(* apply_patches_to_state on its own                                       *)

\* the longest list of patches handed to the applier
MaxPatches == 2

APPLIER_RESUMES ==
    APPLY_RESUMES
    \cup {ResumeState("Data engineer.", <<"Python, SQL", "k8s">>,
                      <<Role("r1", "Acme", "Data Engineer",
                             <<"Built Tableau dashboards", "Wrote Python jobs">>),
                        Role("r2", "Zeta", "Analyst", <<>>)>>)}

APPLIER_PATCHES ==
    {PatchOperation("experience", id, "insert", after, <<>>, "- Ran\tDBT models ", "DBT") :
        id \in {"r1", "r2"}, after \in {<<>>, <<-2>>, <<-1>>, <<0>>, <<1>>, <<2>>}}
    \cup
    {PatchOperation("experience", id, "replace", <<>>, at, "1.  Used  MySQL", "MySQL") :
        id \in {"r1", "r2"}, at \in {<<>>, <<-1>>, <<0>>, <<1>>, <<2>>}}
    \cup
    {PatchOperation("experience", id, "insert", <<>>, <<>>, "Used Python", "Python") :
        id \in {"r9", ""}}
    \cup
    {PatchOperation("technical_skills", "", "insert", after, <<>>, "* Kubernetes", "Kubernetes") :
        after \in {<<>>, <<-2>>, <<-1>>, <<0>>, <<2>>}}
    \cup
    {PatchOperation("technical_skills", "", "replace", <<>>, <<0>>, "Python 3", "Python")}

ApplierRequests ==
    {[op |-> "apply_to_state", patches |-> patches] :
        patches \in SeqsUpTo(APPLIER_PATCHES, MaxPatches)}

\* the outcome of the call: the in-memory state as the loop left it, and the
\* exception that ended the loop, if any
applier_done(outcome) ==
    /\ resume' = outcome.state
    /\ resp' = [op |-> "apply_to_state", error |-> outcome.error, kind |-> outcome.kind]

\* apply_patches_to_state is called on the in-memory state with the pending patches
ApplyToState ==
    /\ req.op = "apply_to_state"
    /\ resp = Idle
    /\ applier_done(apply_patches_to_state(resume, req.patches))
    /\ UNCHANGED <<initial, versions, overrides_file, req>>

InitApplier ==
    /\ resume \in APPLIER_RESUMES
    /\ initial = resume
    /\ versions = 1
    /\ overrides_file = NoOverrides
    /\ req \in ApplierRequests
    /\ resp = Idle

NextApplier == ApplyToState

SpecApplier == InitApplier /\ [][NextApplier]_vars

ApplierReturned == resp.op = "apply_to_state" /\ resp.error = ""

ApplierRaised == resp.op = "apply_to_state" /\ resp.error # ""


-----------------------------------------------------------------------------
(* Properties of the patch applier, under SpecApplier                      *)

\* the call was made with one patch
OnePatch == resp.op = "apply_to_state" /\ Len(req.patches) = 1

\* the bullets of the role with the role_id
BulletsOf(state, role_id) == state.experience[RolePosition(state, role_id)].bullets

\* the anchor of an insert into items: after_index, or the last position when omitted
AnchorIn(patch, items) ==
    IF patch.after_index = <<>> THEN Len(items) - 1 ELSE patch.after_index[1]

\* the index the patch names is in range for items
IndexInRange(patch, items) ==
    IF patch.action = "replace"
    THEN /\ patch.bullet_index # <<>>
         /\ 0 <= patch.bullet_index[1]
         /\ patch.bullet_index[1] < Len(items)
    ELSE /\ -1 <= AnchorIn(patch, items)
         /\ AnchorIn(patch, items) < Len(items)

\* one experience patch whose role_id names a role of the resume
OneRolePatch ==
    /\ OnePatch
    /\ req.patches[1].section = "experience"
    /\ RolePosition(initial, req.patches[1].role_id) > 0

IndexChecked(patch, before, after) ==
    /\ (resp.error = "") <=> IndexInRange(patch, before)
    /\ resp.error # "" =>
           /\ resp.kind = "IndexError"
           /\ Contains(resp.error, "out of range")
           /\ after = before

\* C16: an experience patch is accepted only with an in-range index: a replace
\* succeeds if and only if bullet_index is given and 0 <= bullet_index < len(bullets)
\* of the targeted role, an insert if and only if -1 <= after_index < len(bullets),
\* an omitted after_index standing for len(bullets) - 1; an out-of-range index raises
\* an out-of-range error and leaves the bullets of the role unchanged.
C16_IndexRange ==
    OneRolePatch =>
        IndexChecked(req.patches[1], BulletsOf(initial, req.patches[1].role_id),
                     BulletsOf(resume, req.patches[1].role_id))

\* a replace at bullet_index = len(bullets) of a role that has bullets is refused
C16_Witness ==
    /\ OneRolePatch
    /\ req.patches[1].action = "replace"
    /\ req.patches[1].bullet_index # <<>>
    /\ req.patches[1].bullet_index[1] = Len(BulletsOf(initial, req.patches[1].role_id))
    /\ Len(BulletsOf(initial, req.patches[1].role_id)) > 0
    /\ resp.error = "bullet_index out of range"


\* seq without its entry at position i
Without(seq, i) == SubSeq(seq, 1, i - 1) \o SubSeq(seq, i + 1, Len(seq))

\* the effect of the patch on the list it targets
PatchEffect(patch, before, after) ==
    IF patch.action = "insert"
    THEN /\ Len(after) = Len(before) + 1
         /\ after[AnchorIn(patch, before) + 2] = clean_bullet(patch.new_bullet)
         /\ Without(after, AnchorIn(patch, before) + 2) = before
    ELSE /\ Len(after) = Len(before)
         /\ after[patch.bullet_index[1] + 1] = clean_bullet(patch.new_bullet)
         /\ \A i \in 1..Len(before) :
                i # patch.bullet_index[1] + 1 => after[i] = before[i]

\* the roles are the same ones in the same order, up to the bullets of role_id
OtherRolesKept(before, after, role_id) ==
    /\ Len(after.experience) = Len(before.experience)
    /\ \A r \in 1..Len(before.experience) :
           IF before.experience[r].role_id = role_id
           THEN after.experience[r] =
                    [before.experience[r] EXCEPT !.bullets = after.experience[r].bullets]
           ELSE after.experience[r] = before.experience[r]

\* what one successful patch changes and what it leaves alone
EffectAndFrame(patch, before, after) ==
    /\ after.professional_summary = before.professional_summary
    /\ after.education = before.education
    /\ IF patch.section = "technical_skills"
       THEN /\ PatchEffect(patch, before.technical_skills, after.technical_skills)
            /\ after.experience = before.experience
       ELSE /\ PatchEffect(patch, BulletsOf(before, patch.role_id),
                           BulletsOf(after, patch.role_id))
            /\ OtherRolesKept(before, after, patch.role_id)
            /\ after.technical_skills = before.technical_skills

\* C17: one successful patch: an insert places the sanitized new bullet at position
\* after_index + 1 of the targeted list (the bullets of the role, or
\* technical_skills), makes the list one longer and keeps the previous entries in
\* their order; a replace changes the entry at bullet_index only and keeps the
\* length; the bullets of every other role, the summary, education and, for an
\* experience patch, technical_skills are unchanged; the role is the one with the
\* role_id, whatever its position.
C17_EffectAndFrame ==
    OnePatch /\ resp.error = "" => EffectAndFrame(req.patches[1], initial, resume)

\* an insert into the bullets of the role listed second, found by its role_id
C17_Witness ==
    /\ OnePatch /\ resp.error = ""
    /\ req.patches[1].action = "insert"
    /\ req.patches[1].section = "experience"
    /\ RolePosition(initial, req.patches[1].role_id) = 2
    /\ Len(BulletsOf(initial, req.patches[1].role_id)) = 0
    /\ BulletsOf(resume, req.patches[1].role_id) = <<"Ran DBT models">>


\* the in-memory state once the first j patches of the call have been applied
StateAfter(j) == apply_patches_to_state(initial, SubSeq(req.patches, 1, j)).state

\* the patch cannot be applied to the state: a replace on technical_skills, a missing
\* or unknown role_id, or an index out of range
Refused(patch, state) ==
    IF patch.section = "technical_skills"
    THEN patch.action # "insert" \/ ~IndexInRange(patch, state.technical_skills)
    ELSE \/ patch.role_id = ""
         \/ \A r \in 1..Len(state.experience) : state.experience[r].role_id # patch.role_id
         \/ ~IndexInRange(patch, BulletsOf(state, patch.role_id))

\* the patches of the call that find the state left by those before them unfit
RefusedAt == {k \in 1..Len(req.patches) : Refused(req.patches[k], StateAfter(k - 1))}

\* the number of patches applied before the call returned or raised
AppliedCount ==
    IF RefusedAt = {} THEN Len(req.patches)
    ELSE (CHOOSE k \in RefusedAt : \A other \in RefusedAt : k <= other) - 1

\* a replace on technical_skills fails with the policy error
PolicyError(patch) ==
    patch.section = "technical_skills" /\ patch.action # "insert" =>
        resp.error = "Only insert is supported for technical_skills"

InListOrder(applied) ==
    /\ (resp.error # "") <=> (applied < Len(req.patches))
    /\ resume = StateAfter(applied)
    /\ \A k \in 1..applied :
           EffectAndFrame(req.patches[k], StateAfter(k - 1), StateAfter(k))
    /\ applied < Len(req.patches) => PolicyError(req.patches[applied + 1])

\* C18: apply_patches_to_state applies the patches in list order and does not roll
\* back: when patch k fails (index out of range, unknown or missing role_id, or a
\* replace on technical_skills, which fails with a policy error), the in-memory state
\* is the state after patches 0..k-1, patch k has had no effect and the patches after
\* k are not attempted.
C18_NoRollback ==
    resp.op = "apply_to_state" => InListOrder(AppliedCount)

\* the first patch was applied and its effect is kept, the second was refused
C18_Witness ==
    /\ ApplierRaised
    /\ AppliedCount = 1
    /\ resume # initial
    /\ resume = StateAfter(1)


-----------------------------------------------------------------------------
(* The error classes of POST /resumes/{id}/apply-patches, under Spec       *)

\* the patch names a role_id that no role of the resume carries
UnknownRole(patch, state) ==
    /\ patch.section = "experience"
    /\ patch.role_id # ""
    /\ \A r \in 1..Len(state.experience) : state.experience[r].role_id # patch.role_id

\* the request for a known resume whose first patch names an unknown role_id, and
\* which passes the truth-mode validation
UnknownRoleSubmitted ==
    /\ req.op = "apply_patches"
    /\ resp.op = "apply_patches"
    /\ req.resume_id = RESUME_ID
    /\ UnknownRole(req.patches[1], resume)
    /\ validate_patches_truth_mode(req.patches, resume, overrides_file, req.truth_mode) = ""

\* C19: a patch submitted to ApplyPatches that references a role_id not present in
\* the resume is surfaced as a not-found (404) error, distinct from the validation
\* (422) class used for malformed indices and policy violations.
C19_UnknownRoleIsNotFound ==
    UnknownRoleSubmitted => resp.status = 404


-----------------------------------------------------------------------------
(* POST /resumes/{id}/suggest-patches                                      *)

\* a lookup that compares the stored skill as it was written
find_override_as_written(overrides, skill) ==
    IF \E i \in 1..Len(overrides.skills) : overrides.skills[i].skill = skill
    THEN CHOOSE i \in 1..Len(overrides.skills) :
            /\ overrides.skills[i].skill = skill
            /\ \A j \in 1..(i - 1) : overrides.skills[j].skill # skill
    ELSE 0

\* _find_override: the position of the first stored entry for the skill, compared
\* trimmed and lowercased; 0 when there is none or no overrides are in use
find_override(overrides, skill) ==
    IF \E i \in 1..Len(overrides.skills) :
           Lower(Strip(overrides.skills[i].skill)) = Lower(Strip(skill))
    THEN CHOOSE i \in 1..Len(overrides.skills) :
            /\ Lower(Strip(overrides.skills[i].skill)) = Lower(Strip(skill))
            /\ \A j \in 1..(i - 1) :
                   Lower(Strip(overrides.skills[j].skill)) # Lower(Strip(skill))
    ELSE 0

\* the two characters of text from position p are a backslash and the letter w
BackslashW(text, p) ==
    /\ p >= 1
    /\ p + 1 <= Len(text)
    /\ Ch(text, p) = "\\"
    /\ Ch(text, p + 1) \in {"w", "W"}

\* re.search(r"(?<!\\w)" + re.escape(token) + r"(?!\\w)", text, re.IGNORECASE): in
\* the raw strings \\w is a backslash followed by w, so the lookarounds exclude a
\* literal backslash-w next to the token and nothing else
raw_pattern_search(text, token) ==
    \E p \in 1..(Len(text) - Len(token) + 1) :
        /\ Lower(SubSeq(text, p, p + Len(token) - 1)) = token
        /\ ~BackslashW(text, p - 2)
        /\ ~BackslashW(text, p + Len(token))

\* _skill_already_present
skill_already_present(state, skill) ==
    \/ \E i \in 1..Len(state.technical_skills) :
           raw_pattern_search(state.technical_skills[i], Lower(Strip(skill)))
    \/ \E i \in 1..Len(SplitLines(state.professional_summary)) :
           raw_pattern_search(SplitLines(state.professional_summary)[i], Lower(Strip(skill)))
    \/ \E r \in 1..Len(state.experience) :
           \E b \in 1..Len(state.experience[r].bullets) :
               raw_pattern_search(state.experience[r].bullets[b], Lower(Strip(skill)))

\* a count of the inserts of a role that stays at 0
inserts_per_role_uncounted(inserted, role_id) == 0

\* inserts_per_role.get(role_id, 0), inserted listing the role_id of every insert so far
inserts_per_role(inserted, role_id) ==
    Cardinality({i \in 1..Len(inserted) : inserted[i] = role_id})

RECURSIVE SuggestProofs(_, _, _, _, _, _)
\* for proof in override_entry.proof_bullets, from proof p on
SuggestProofs(acc, entry, role_id, after_index, skill, p) ==
    IF p > Len(entry.proof_bullets) \/ inserts_per_role(acc.inserted, role_id) >= 2
    THEN acc
    ELSE SuggestProofs(
             [suggested |-> Append(acc.suggested,
                                   PatchOperation("experience", role_id, "insert",
                                                  <<after_index>>, <<>>,
                                                  entry.proof_bullets[p], skill)),
              inserted |-> Append(acc.inserted, role_id)],
             entry, role_id, after_index, skill, p + 1)

RECURSIVE SuggestRoles(_, _, _, _, _)
\* for role_id in override_entry.target_roles, from target j on
SuggestRoles(acc, state, entry, skill, j) ==
    IF j > Len(entry.target_roles) THEN acc
    ELSE IF \/ inserts_per_role(acc.inserted, entry.target_roles[j]) >= 2
            \/ RolePosition(state, entry.target_roles[j]) = 0
    THEN SuggestRoles(acc, state, entry, skill, j + 1)
    ELSE SuggestRoles(
             SuggestProofs(acc, entry, entry.target_roles[j],
                           Len(state.experience[RolePosition(state, entry.target_roles[j])].bullets) - 1,
                           skill, 1),
             state, entry, skill, j + 1)

\* the technical_skills insert suggested for a skill without an override
exposure_patch(state, skill) ==
    PatchOperation("technical_skills", "", "insert", <<Len(state.technical_skills) - 1>>,
                   <<>>, "Exposure to " \o skill, skill)

RECURSIVE SuggestSkills(_, _, _, _, _)
\* for skill in ats.missing_required, from skill i on
SuggestSkills(acc, state, overrides, skills, i) ==
    IF i > Len(skills) THEN acc
    ELSE IF find_override(overrides, skills[i]) # 0
    THEN SuggestSkills(
             SuggestRoles(acc, state, overrides.skills[find_override(overrides, skills[i])],
                          skills[i], 1),
             state, overrides, skills, i + 1)
    ELSE IF skill_already_present(state, skills[i])
    THEN SuggestSkills(acc, state, overrides, skills, i + 1)
    ELSE SuggestSkills([acc EXCEPT !.suggested = Append(@, exposure_patch(state, skills[i]))],
                       state, overrides, skills, i + 1)

\* the list suggested before the guardrail
suggested_for(state, overrides, missing_required) ==
    SuggestSkills([suggested |-> <<>>, inserted |-> <<>>], state, overrides,
                  missing_required, 1).suggested

suggest_guarded(payload, state, overrides, ats) ==
    apply_truth_guardrails(suggested_for(state, overrides, ats.missing_required), ats,
                           overrides, payload.truth_mode, state, payload.jd_text)

\* suggest_patches once the state is loaded: the overrides are read only on request
suggest_loaded(payload, state, stored) ==
    suggest_guarded(payload, state, IF payload.apply_overrides THEN stored ELSE NoOverrides,
                    score_resume_against_jd(payload.jd_text, state, DEFAULT_TOP_N,
                                            payload.strict_mode))

SuggestPatchesResponse(result) ==
    [op |-> "suggest_patches", status |-> 200,
     suggested_patches |-> result.patches, blocked |-> result.blocked]

suggest_patches(payload, state, stored) ==
    IF payload.resume_id # RESUME_ID
    THEN [op |-> "suggest_patches", status |-> 404]
    ELSE SuggestPatchesResponse(suggest_loaded(payload, state, stored))


SUGGEST_RESUMES ==
    {ResumeState("", <<>>, <<>>),
     ResumeState("", <<"Python">>,
                 <<Role("r1", "Acme", "Data Engineer", <<"Built Tableau dashboards">>)>>),
     ResumeState("Data engineer.\n\nWorked with SCADA systems", <<"Python", "NoSQL stores">>,
                 <<Role("r2", "Zeta", "Analyst",
                        <<"Tuned MySQL queries", "Used Python daily">>),
                   Role("r1", "Acme", "Data Engineer", <<>>)>>)}

SUGGEST_JDS ==
    {"Required: SQL, Python\nPreferred: Tableau, Kubernetes",
     "Qualifications\n  Kubernetes, python\n\nPreferred\nMySQL, PYTHON and DBT",
     "Requirements: DBT, Kubernetes, SQL",
     "Great team"}

SUGGEST_OVERRIDES ==
    {NoOverrides,
     OverridesRequest(
         <<OverrideSkill(" KUBERNETES ", <<"r1", "r9", "r2">>,
                         <<"Ran Kubernetes clusters in production",
                           "Deployed services on Kubernetes",
                           "Scaled Kubernetes nodes">>),
           OverrideSkill("dbt", <<"r1">>, <<"Built DBT models">>)>>),
     OverridesRequest(
         <<OverrideSkill("sql", <<>>, <<>>),
           OverrideSkill("SQL", <<"r2">>, <<"Wrote SQL reports weekly">>)>>)}

SuggestPatchesRequests ==
    {[op |-> "suggest_patches", resume_id |-> id, jd_text |-> jd, strict_mode |-> strict,
      truth_mode |-> mode, apply_overrides |-> apply] :
        id \in {RESUME_ID, "resume-9"}, jd \in SUGGEST_JDS, strict \in BOOLEAN,
        mode \in TRUTH_MODES, apply \in BOOLEAN}

\* the pending request is served
SuggestPatches ==
    /\ req.op = "suggest_patches"
    /\ resp = Idle
    /\ resp' = suggest_patches(req, resume, overrides_file)
    /\ UNCHANGED <<resume, initial, versions, overrides_file, req>>

InitSuggest ==
    /\ resume \in SUGGEST_RESUMES
    /\ initial = resume
    /\ versions = 1
    /\ overrides_file \in SUGGEST_OVERRIDES
    /\ req \in SuggestPatchesRequests
    /\ resp = Idle

NextSuggest == SuggestPatches

SpecSuggest == InitSuggest /\ [][NextSuggest]_vars

Suggested == resp.op = "suggest_patches" /\ resp.status = 200


-----------------------------------------------------------------------------
(* Properties of the suggester, under SpecSuggest                          *)

\* the report the handler computed for the request
SuggestReport ==
    score_resume_against_jd(req.jd_text, resume, DEFAULT_TOP_N, req.strict_mode)

\* the overrides the handler used: the stored ones, when the request asks for them
OverridesInUse == IF req.apply_overrides THEN overrides_file ELSE NoOverrides

HasOverrideFor(skill) ==
    \E i \in 1..Len(OverridesInUse.skills) :
        Lower(Strip(OverridesInUse.skills[i].skill)) = Lower(Strip(skill))

\* the positions of the technical_skills patches suggested for the skill
ExposurePatches(skill) ==
    {i \in 1..Len(resp.suggested_patches) :
        /\ resp.suggested_patches[i].section = "technical_skills"
        /\ resp.suggested_patches[i].skill = skill}

IsExposurePatch(patch, skill) ==
    /\ patch.action = "insert"
    /\ patch.new_bullet = "Exposure to " \o skill
    /\ patch.skill = skill
    /\ patch.after_index = <<Len(resume.technical_skills) - 1>>

ExposureSuggested(skill) ==
    /\ HasOverrideFor(skill) => ExposurePatches(skill) = {}
    /\ (~HasOverrideFor(skill) /\ ~EvidenceAnywhere(resume, Lower(Strip(skill)))) =>
           /\ Cardinality(ExposurePatches(skill)) = 1
           /\ \A i \in ExposurePatches(skill) :
                  IsExposurePatch(resp.suggested_patches[i], skill)

\* C20: for every skill in missing_required that has no override and that a
\* case-insensitive word-boundary search does not find in the summary, the
\* technical-skills lines or any experience bullet, exactly one technical_skills
\* insert patch is suggested, with new_bullet "Exposure to <skill>", skill set to the
\* skill and after_index = len(technical_skills) - 1; none is suggested for a skill
\* that has an override.  Stated for the truth modes under which the guardrail lets
\* every technical_skills insert through.
C20_ExposurePatch ==
    Suggested /\ req.truth_mode # "strict" =>
        \A skill \in Range(SuggestReport.missing_required) : ExposureSuggested(skill)


\* the suggested list is returned whole when the truth mode is off
SuggestedList == Suggested /\ req.truth_mode = "off"

\* the positions of the experience patches suggested for the role
RoleInserts(role_id) ==
    {i \in 1..Len(resp.suggested_patches) :
        /\ resp.suggested_patches[i].section = "experience"
        /\ resp.suggested_patches[i].role_id = role_id}

\* the patch carries a proof bullet of an override in use that targets its role
FromOverride(patch) ==
    \E i \in 1..Len(OverridesInUse.skills) :
        /\ Lower(Strip(OverridesInUse.skills[i].skill)) = Lower(Strip(patch.skill))
        /\ InSeq(patch.role_id, OverridesInUse.skills[i].target_roles)
        /\ InSeq(patch.new_bullet, OverridesInUse.skills[i].proof_bullets)

\* the patch appends to the bullets of a role of the resume as it was loaded
AnchoredAtEnd(patch) ==
    /\ \E r \in 1..Len(resume.experience) : resume.experience[r].role_id = patch.role_id
    /\ patch.action = "insert"
    /\ patch.after_index = <<Len(BulletsOf(resume, patch.role_id)) - 1>>

ProofInserts(patches) ==
    /\ \A i \in 1..Len(patches) : Cardinality(RoleInserts(patches[i].role_id)) <= 2
    /\ \A i \in 1..Len(patches) :
           patches[i].section = "experience" =>
               FromOverride(patches[i]) /\ AnchoredAtEnd(patches[i])

\* C21: in one run the suggested list holds at most 2 experience inserts per role,
\* counted across all missing skills and all overrides; each carries one proof
\* bullet of an override whose target_roles contains the role and is anchored at
\* after_index = len(role.bullets) - 1 of the unmodified resume; a target role that
\* is not in the resume gets no patch.
C21_TwoInsertsPerRole ==
    SuggestedList => ProofInserts(resp.suggested_patches)

\* the overrides of two missing skills target the same role, which gets one insert
\* from each and no more; another role gets two of three proofs; the target role
\* that is not in the resume gets none
C21_Witness ==
    /\ SuggestedList
    /\ \E i, j \in RoleInserts("r1") :
           resp.suggested_patches[i].skill # resp.suggested_patches[j].skill
    /\ Cardinality(RoleInserts("r2")) = 2
    /\ \E i \in 1..Len(OverridesInUse.skills) :
           InSeq("r9", OverridesInUse.skills[i].target_roles)


-----------------------------------------------------------------------------
(* suggest_roles_for_skill on its own                                      *)

\* the largest number of roles of a resume
MaxRoles == 3

ROLE_POOL ==
    {Role("r1", "Acme", "Data Engineer", <<"Built Tableau dashboards">>),
     Role("r2", "Zeta", "Analyst", <<"Tuned MySQL queries", "Used Python daily">>),
     Role("r3", "Initech", "Python Developer", <<>>),
     Role("r0", "Globex", "Intern", <<"Filed reports">>)}

\* the experience lists: up to MaxRoles roles of the pool, each at most once
ROLE_LISTS ==
    {roles \in SeqsUpTo(ROLE_POOL, MaxRoles) :
        \A i, j \in 1..Len(roles) : roles[i] = roles[j] => i = j}

RolesRequests ==
    {[op |-> "suggest_roles", skill |-> skill, jd_context |-> jd] :
        skill \in {"", " Python ", "Kubernetes", "tableau"},
        jd \in {"", "Build dashboards for analysts", "Great team"}}

\* suggest_roles_for_skill is called on the resume
SuggestRolesForSkill ==
    /\ req.op = "suggest_roles"
    /\ resp = Idle
    /\ resp' = [op |-> "suggest_roles",
                roles |-> suggest_roles_for_skill(resume, req.skill, req.jd_context)]
    /\ UNCHANGED <<resume, initial, versions, overrides_file, req>>

InitRoles ==
    /\ resume \in {ResumeState("", <<>>, roles) : roles \in ROLE_LISTS}
    /\ initial = resume
    /\ versions = 1
    /\ overrides_file = NoOverrides
    /\ req \in RolesRequests
    /\ resp = Idle

NextRoles == SuggestRolesForSkill

SpecRoles == InitRoles /\ [][NextRoles]_vars

RolesSuggested == resp.op = "suggest_roles"


-----------------------------------------------------------------------------
(* Properties of suggest_roles_for_skill, under SpecRoles                   *)

\* the score and the role_id of every role, in resume order
RoleScores ==
    scored_roles(resume.experience, Strip(req.skill),
                 tokenize(Strip(req.skill) \o " " \o req.jd_context))

PositiveRoles(scores) == {i \in 1..Len(scores) : scores[i].score > 0}

\* a ranks before b: higher score first, then the smaller role_id
RanksBefore(a, b) ==
    a.score > b.score \/ (a.score = b.score /\ StrLess(a.role_id, b.role_id))

\* roles lists the role_ids of the best two of the candidates, best first
BestTwo(roles, scores, candidates) ==
    /\ Len(roles) = Min2(2, Cardinality(candidates))
    /\ \A k \in 1..Len(roles) : \E i \in candidates : scores[i].role_id = roles[k]
    /\ \A k, l \in 1..Len(roles) : roles[k] = roles[l] => k = l
    /\ \A i, j \in candidates :
           (InSeq(scores[j].role_id, roles) /\ RanksBefore(scores[i], scores[j])) =>
               \E k, l \in 1..Len(roles) :
                   k < l /\ roles[k] = scores[i].role_id /\ roles[l] = scores[j].role_id

\* what holds whether or not a role scores positively
TopRoles(roles, scores) ==
    /\ Len(roles) <= 2
    /\ scores = <<>> => roles = <<>>
    /\ PositiveRoles(scores) # {} => BestTwo(roles, scores, PositiveRoles(scores))

\* C22 as stated: at most 2 role_ids of the resume without repetition, the roles
\* with score > 0 by descending score and then ascending role_id; when no role
\* scores positively, the first 2 roles of the experience list in resume order;
\* the empty list when the resume has no roles.
C22_FallbackInResumeOrder ==
    RolesSuggested =>
        /\ TopRoles(resp.roles, RoleScores)
        /\ PositiveRoles(RoleScores) = {} =>
               resp.roles = FirstTwo(RoleIds(RoleScores))

\* C22: as stated, except that when no role scores positively the result is the
\* first 2 roles by ascending role_id: the fallback reads the list that was sorted
\* by (-score, role_id), not the experience list.
C22_SuggestedRoles ==
    RolesSuggested =>
        /\ TopRoles(resp.roles, RoleScores)
        /\ PositiveRoles(RoleScores) = {} =>
               BestTwo(resp.roles, RoleScores, DOMAIN RoleScores)

\* no role scores positively and the experience list is not in role_id order
C22_Witness ==
    /\ RolesSuggested
    /\ Len(resume.experience) = 3
    /\ PositiveRoles(RoleScores) = {}
    /\ resp.roles # FirstTwo(RoleIds(RoleScores))


-----------------------------------------------------------------------------
(* The must-have gate and whole tokens, under SpecScore                    *)

\* the gated tokens that occur in the JD of the request as whole tokens
GatedTokensInJd ==
    {i \in 1..Len(MUST_HAVE_DOMAINS) : has_token(req.jd_text, MUST_HAVE_DOMAINS[i])}

\* C23: the must-have gate is triggered only by gated domain tokens that occur in
\* the JD as whole tokens (case-insensitive, delimited by non-word characters): a
\* gated string that occurs only inside a longer word, such as pi inside pipeline,
\* is no gate hit and the score is not capped on account of it.
C23_GateWholeTokens ==
    Scored =>
        /\ \A i \in 1..Len(resp.body.missing_must_have) :
               \A k \in 1..Len(resp.body.missing_must_have[i]) :
                   has_token(req.jd_text, resp.body.missing_must_have[i][k])
        /\ resp.body.capped_reason # <<>> =>
               \E i \in GatedTokensInJd : ~EvidenceAnywhere(resume, MUST_HAVE_DOMAINS[i])


-----------------------------------------------------------------------------
(* The section state machine of the extractor, under SpecExtract           *)

\* the header keywords of each kind that the line contains
PreferredKeys(line) == {k \in SECTION_PREFERRED : Contains(Lower(line), k)}

RequiredKeys(line) == {k \in SECTION_REQUIRED \cup SECTION_RESP : Contains(Lower(line), k)}

\* the required or responsibilities keywords of the line that are not part of a
\* preferred keyword of the line
OwnRequiredKeys(line) ==
    {k \in RequiredKeys(line) : \A p \in PreferredKeys(line) : ~Contains(p, k)}

\* the line carries header keywords of both kinds, each on its own
TwoHeaders(line) == PreferredKeys(line) # {} /\ OwnRequiredKeys(line) # {}

\* the section that is current after the line, as the state machine is described
SectionAfterHeader(current, line) ==
    IF PreferredKeys(line) # {} THEN "preferred"
    ELSE IF RequiredKeys(line) # {} THEN "required"
    ELSE current

RECURSIVE HeaderScan(_, _, _, _, _)
\* the lists the described state machine appends to, from line i on
HeaderScan(lines, i, current, required, preferred) ==
    IF i > Len(lines) THEN [required |-> required, preferred |-> preferred]
    ELSE IF SectionAfterHeader(current, lines[i]) = "preferred"
    THEN HeaderScan(lines, i + 1, "preferred", required,
                    preferred \o find_skills_in_text(lines[i]))
    ELSE HeaderScan(lines, i + 1, "required",
                    required \o find_skills_in_text(lines[i]), preferred)

SectionsAsDescribed(skills, appended) ==
    /\ skills.required = FullRequired(appended)
    /\ skills.preferred = FullPreferred(appended)

\* C24: the section state machine starts in required; a line with a required or a
\* responsibilities header keyword sets the section to required, a line with a
\* preferred header keyword sets it to preferred, a line with no header keyword
\* leaves it unchanged; the skills of a line go to the list of the section current
\* after its header detection, so every skill on or after a preferred header, until
\* the next required or responsibilities header, is reported as preferred.  Stated
\* for job descriptions without a cap and without a line that carries headers of
\* both kinds.
C24_SectionMachine ==
    (/\ Extracted
     /\ req.top_n_skills = 0
     /\ \A i \in 1..Len(StrippedLines(req.jd_text)) :
            ~TwoHeaders(StrippedLines(req.jd_text)[i]))
        => SectionsAsDescribed(resp.skills,
                               HeaderScan(StrippedLines(req.jd_text), 1, "required",
                                          <<>>, <<>>))



-----------------------------------------------------------------------------
(* Applying the suggested patches, under SpecSuggest                       *)

RECURSIVE EmittedBullets(_, _, _, _)
\* the cleaned bullets of the patches for one target list, in the order of the list
EmittedBullets(patches, section, role_id, i) ==
    IF i > Len(patches) THEN <<>>
    ELSE IF patches[i].section = section /\ patches[i].role_id = role_id
    THEN <<clean_bullet(patches[i].new_bullet)>>
             \o EmittedBullets(patches, section, role_id, i + 1)
    ELSE EmittedBullets(patches, section, role_id, i + 1)

\* every target list of the state is the list of before followed by the bullets
\* of its patches in the order of the patches
AppendedInOrder(before, patches, outcome) ==
    /\ outcome.error = ""
    /\ outcome.state.technical_skills =
           before.technical_skills \o EmittedBullets(patches, "technical_skills", "", 1)
    /\ \A r \in 1..Len(before.experience) :
           outcome.state.experience[r].bullets =
               before.experience[r].bullets
                   \o EmittedBullets(patches, "experience", before.experience[r].role_id, 1)

\* C25: when the patches suggested for one target list, all anchored at
\* after_index = len - 1 of the unmodified list, are applied in list order by
\* apply_patches_to_state, every new bullet ends up after all the entries that were
\* there and the new bullets appear in the order in which they were emitted.
C25_AppendedInEmittedOrder ==
    SuggestedList =>
        AppendedInOrder(resume, resp.suggested_patches,
                        apply_patches_to_state(resume, resp.suggested_patches))



-----------------------------------------------------------------------------
(* suggest-patches followed by apply-patches                               *)

RECURSIVE Picked(_, _, _)
\* the entries of seq that the mask keeps, from position i on, in the order of seq
Picked(seq, mask, i) ==
    IF i > Len(seq) THEN <<>>
    ELSE IF mask[i] THEN <<seq[i]>> \o Picked(seq, mask, i + 1)
    ELSE Picked(seq, mask, i + 1)

\* the lists made of some entries of seq in the same relative order
SubLists(seq) == {Picked(seq, mask, 1) : mask \in [1..Len(seq) -> BOOLEAN]}

\* the client posts patches of the suggest-patches response to apply-patches for
\* the same resume, with the truth mode of the suggest request
ApplySuggested ==
    /\ Suggested
    /\ \E patches \in SubLists(resp.suggested_patches) :
           ApplyPatches([op |-> "apply_patches", resume_id |-> req.resume_id,
                         patches |-> patches, truth_mode |-> req.truth_mode,
                         export_docx |-> FALSE], TRUE)

InitRoundTrip == InitSuggest

NextRoundTrip == SuggestPatches \/ ApplySuggested

SpecRoundTrip == InitRoundTrip /\ [][NextRoundTrip]_vars


-----------------------------------------------------------------------------
(* Properties of the round trip, under SpecRoundTrip                       *)

\* the number of lines and bullets of the state
EntryCount(state) == Len(state.technical_skills) + Len(AllBullets(state.experience, 1))

\* apply-patches accepted the batch, applied each of its patches to the state that
\* was stored and appended the result as the next version
AppliedWhole(before, batch, response, after) ==
    /\ response.status = 200
    /\ after = apply_patches_to_state(before, batch).state
    /\ EntryCount(after) = EntryCount(before) + Len(batch)

\* C26: for any resume, job description, stored overrides and truth mode, posting
\* the patches returned by suggest-patches with apply_overrides = true, whole or any
\* sublist in the same relative order, to apply-patches with the same truth mode
\* against the same resume version and overrides passes validate_patches_truth_mode
\* and applies every patch, with no out-of-range, role-not-found or policy error.
C26_RoundTrip ==
    [][(Suggested /\ req.apply_overrides /\ resp'.op = "apply_patches")
           => AppliedWhole(resume, req'.patches, resp', resume')]_vars

\* under the strict mode a batch with two proof inserts for one role was applied
C26_Witness ==
    /\ resp.op = "apply_patches"
    /\ resp.status = 200
    /\ req.truth_mode = "strict"
    /\ \E i, j \in 1..Len(req.patches) :
           /\ i < j
           /\ req.patches[i].section = "experience"
           /\ req.patches[j].section = "experience"
           /\ req.patches[i].role_id = req.patches[j].role_id



-----------------------------------------------------------------------------
(* POST /resumes/{id}/blocked-plan, next to suggest-patches                *)

\* blocked[: payload.top_n] when top_n is given and positive
plan_truncated(blocked, top_n) ==
    IF top_n # <<>> /\ top_n[1] > 0
    THEN SubSeq(blocked, 1, IF top_n[1] < Len(blocked) THEN top_n[1] ELSE Len(blocked))
    ELSE blocked

\* blocked_plan once the state is loaded: the stored overrides are always read, the
\* suggested list is built as in suggest_patches and only the blocked list is kept
plan_loaded(payload, state, stored, ats) ==
    plan_truncated(
        apply_truth_guardrails(suggested_for(state, stored, ats.missing_required), ats,
                               stored, payload.truth_mode, state, payload.jd_text).blocked,
        payload.top_n)

blocked_plan(payload, state, stored) ==
    IF payload.resume_id # RESUME_ID
    THEN [op |-> "blocked_plan", status |-> 404]
    ELSE [op |-> "blocked_plan", status |-> 200,
          blocked |-> plan_loaded(payload, state, stored,
                                  score_resume_against_jd(payload.jd_text, state,
                                                          DEFAULT_TOP_N,
                                                          payload.strict_mode))]

BlockedPlanRequests ==
    {[op |-> "blocked_plan", resume_id |-> id, jd_text |-> jd, strict_mode |-> strict,
      truth_mode |-> mode, top_n |-> top_n] :
        id \in {RESUME_ID, "resume-9"}, jd \in SUGGEST_JDS, strict \in BOOLEAN,
        mode \in TRUTH_MODES, top_n \in {<<>>} \cup {<<n>> : n \in 0..MaxTopN}}

\* the pending blocked-plan request is served
BlockedPlan ==
    /\ req.op = "blocked_plan"
    /\ resp = Idle
    /\ resp' = blocked_plan(req, resume, overrides_file)
    /\ UNCHANGED <<resume, initial, versions, overrides_file, req>>

InitPlan ==
    /\ resume \in SUGGEST_RESUMES
    /\ initial = resume
    /\ versions = 1
    /\ overrides_file \in SUGGEST_OVERRIDES
    /\ req \in SuggestPatchesRequests \cup BlockedPlanRequests
    /\ resp = Idle

NextPlan == SuggestPatches \/ BlockedPlan

SpecPlan == InitPlan /\ [][NextPlan]_vars

Planned == resp.op = "blocked_plan" /\ resp.status = 200


-----------------------------------------------------------------------------
(* The guardrail outcome in the two flows, under SpecPlan                  *)

\* the overrides the flow of the request reads
FlowOverrides ==
    IF req.op = "blocked_plan" \/ req.apply_overrides THEN overrides_file ELSE NoOverrides

\* the list the flow suggested before the guardrail
FlowSuggested == suggested_for(resume, FlowOverrides, SuggestReport.missing_required)

RECURSIVE InSection(_, _, _)
\* the patches of the section, in the order of the list, from position i on
InSection(patches, section, i) ==
    IF i > Len(patches) THEN <<>>
    ELSE IF patches[i].section = section
    THEN <<patches[i]>> \o InSection(patches, section, i + 1)
    ELSE InSection(patches, section, i + 1)

\* blocked holds one entry per patch, in order, for the skill of the patch, and none
\* recommends an override
BlockedFor(blocked, patches) ==
    /\ Len(blocked) = Len(patches)
    /\ \A i \in 1..Len(blocked) :
           /\ blocked[i].skill = patches[i].skill
           /\ blocked[i].recommended_action = "downgrade_to_exposure"

\* the blocked list the guardrail returns for the suggested list under the mode
BySection(mode, suggested, blocked) ==
    IF mode = "strict" THEN BlockedFor(blocked, InSection(suggested, "technical_skills", 1))
    ELSE blocked = <<>>

\* the patches the guardrail returns for the suggested list under the mode
PassedBySection(mode, suggested, patches) ==
    IF mode = "strict" THEN patches = InSection(suggested, "experience", 1)
    ELSE patches = suggested

\* C27: in the suggest-patches and blocked-plan flows the guardrail outcome is
\* decided by section alone: no experience patch is blocked and no blocked
\* suggestion recommends add_override; under balanced the blocked list is empty;
\* under strict the blocked list corresponds exactly to the suggested
\* technical_skills patches and the returned patches are exactly the suggested
\* experience patches.  The blocked-plan response carries the blocked list of the
\* guardrail cut to its first top_n entries.
C27_DecidedBySection ==
    /\ Suggested =>
           /\ BySection(req.truth_mode, FlowSuggested, resp.blocked)
           /\ PassedBySection(req.truth_mode, FlowSuggested, resp.suggested_patches)
    /\ Planned =>
           IF req.truth_mode = "strict"
           THEN BlockedFor(resp.blocked,
                           plan_truncated(InSection(FlowSuggested, "technical_skills", 1),
                                          req.top_n))
           ELSE resp.blocked = <<>>

\* under strict a suggest-patches request got proof inserts back and a blocked entry
\* for its technical_skills patch, or a blocked-plan request got the blocked entry
\* of the technical_skills patch of a list that also holds proof inserts
C27_Witness ==
    /\ req.truth_mode = "strict"
    /\ \/ /\ Suggested
          /\ resp.blocked # <<>>
          /\ resp.suggested_patches # <<>>
       \/ /\ Planned
          /\ req.top_n = <<>>
          /\ resp.blocked # <<>>
          /\ InSection(FlowSuggested, "experience", 1) # <<>>



-----------------------------------------------------------------------------
(* POST /resumes/{id}/overrides/from-blocked                               *)

FromBlockedItem(skill, level, role_id, proof_bullet) ==
    [skill |-> skill, level |-> level, role_id |-> role_id, proof_bullet |-> proof_bullet]

\* _role_exists
role_exists(state, role_id) ==
    \E r \in 1..Len(state.experience) : state.experience[r].role_id = role_id

\* the update of the entry found that keeps every proof bullet
merge_into_entry_uncapped(entry, item, cleaned) ==
    [entry EXCEPT
        !.level = item.level,
        !.target_roles = IF InSeq(item.role_id, @) THEN @ ELSE Append(@, item.role_id),
        !.proof_bullets = IF InSeq(cleaned, @) THEN @ ELSE Append(@, cleaned)]

\* the branch for an entry that _find_override found: level replaced, role and bullet
\* appended unless already there, proof_bullets cut to the first 3
merge_into_entry(entry, item, cleaned) ==
    [entry EXCEPT
        !.level = item.level,
        !.target_roles = IF InSeq(item.role_id, @) THEN @ ELSE Append(@, item.role_id),
        !.proof_bullets = IF InSeq(cleaned, @)
                          THEN SubSeq(@, 1, IF Len(@) > 3 THEN 3 ELSE Len(@))
                          ELSE SubSeq(Append(@, cleaned), 1,
                                      IF Len(@) + 1 > 3 THEN 3 ELSE Len(@) + 1)]

\* one item of the loop merged into the overrides in memory, at the entry
\* _find_override returned (0: none)
merge_item(overrides, item, cleaned, at) ==
    IF at # 0
    THEN [overrides EXCEPT !.skills[at] = merge_into_entry(@, item, cleaned)]
    ELSE [overrides EXCEPT
             !.skills = Append(@, [skill |-> item.skill, level |-> item.level,
                                   target_roles |-> <<item.role_id>>,
                                   proof_bullets |-> <<cleaned>>])]

RECURSIVE FromBlockedLoop(_, _, _, _)
\* for item in payload.items, from item i on: the overrides in memory at the end, or
\* the detail of the HTTPException raised
FromBlockedLoop(state, overrides, items, i) ==
    IF i > Len(items) THEN [detail |-> "", overrides |-> overrides]
    ELSE IF ~role_exists(state, items[i].role_id)
    THEN [detail |-> "role_id not found: " \o items[i].role_id, overrides |-> overrides]
    ELSE IF Len(clean_bullet(items[i].proof_bullet)) < 5
    THEN [detail |-> "proof_bullet is too short after sanitization",
          overrides |-> overrides]
    ELSE FromBlockedLoop(state,
                         merge_item(overrides, items[i], clean_bullet(items[i].proof_bullet),
                                    find_override(overrides, items[i].skill)),
                         items, i + 1)

FromBlockedResponse(status, detail, overrides) ==
    [op |-> "overrides_from_blocked", status |-> status, detail |-> detail,
     overrides |-> overrides]

\* the handler once the state and the overrides are loaded: save_overrides is
\* reached only when the loop raised nothing
from_blocked_loaded(looped) ==
    /\ IF looped.detail # ""
       THEN /\ resp' = FromBlockedResponse(422, looped.detail, NoOverrides)
            /\ UNCHANGED overrides_file
       ELSE /\ resp' = FromBlockedResponse(200, "", looped.overrides)
            /\ overrides_file' = looped.overrides

\* overrides_from_blocked: load the state and the stored overrides (an empty set
\* when there is no file), merge the items in order, save
OverridesFromBlocked(request) ==
    /\ req' = request
    /\ IF request.resume_id # RESUME_ID
       THEN /\ resp' = FromBlockedResponse(404, "resume_id not found", NoOverrides)
            /\ UNCHANGED overrides_file
       ELSE from_blocked_loaded(
                FromBlockedLoop(resume, [overrides_file EXCEPT !.present = TRUE],
                                request.items, 1))
    /\ UNCHANGED <<resume, initial, versions>>

FROM_BLOCKED_RESUME ==
    ResumeState("", <<"Python">>,
                <<Role("r1", "Acme", "Data Engineer", <<"Built Tableau dashboards">>),
                  Role("r2", "Zeta", "Analyst", <<>>)>>)

FROM_BLOCKED_STORED ==
    {NoOverrides,
     OverridesRequest(<<OverrideSkill(" SQL", <<"r1">>,
                                      <<"Wrote SQL reports weekly", "Tuned SQL queries">>)>>)}

SqlReportsItem == FromBlockedItem("sql", "hands_on", "r2", "- Wrote SQL\treports  weekly")
SqlJobsItem == FromBlockedItem("SQL ", "worked_with", "r1", "Ran SQL jobs")
SqlTablesItem == FromBlockedItem("SQL", "worked_with", "r1", "Indexed SQL tables")
DbtUnknownRoleItem == FromBlockedItem("DBT", "worked_with", "r9", "Built DBT models")
DbtShortItem == FromBlockedItem("DBT", "worked_with", "r2", "1. ok")
DbtItem == FromBlockedItem("DBT", "hands_on", "r2", "Built DBT models")

FROM_BLOCKED_BATCHES ==
    {<<>>,
     <<SqlReportsItem>>, <<SqlJobsItem>>, <<SqlTablesItem>>,
     <<DbtUnknownRoleItem>>, <<DbtShortItem>>, <<DbtItem>>,
     <<SqlReportsItem, SqlJobsItem>>,
     <<SqlJobsItem, SqlTablesItem>>,
     <<SqlTablesItem, SqlReportsItem>>,
     <<SqlReportsItem, SqlReportsItem>>,
     <<DbtItem, SqlReportsItem>>,
     <<SqlJobsItem, DbtShortItem>>,
     <<DbtItem, DbtUnknownRoleItem>>}

FromBlockedRequests ==
    {[op |-> "overrides_from_blocked", resume_id |-> RESUME_ID, items |-> items] :
        items \in FROM_BLOCKED_BATCHES}
    \cup
    {[op |-> "overrides_from_blocked", resume_id |-> "resume-9",
      items |-> <<SqlJobsItem>>]}

InitFromBlocked ==
    /\ resume = FROM_BLOCKED_RESUME
    /\ initial = resume
    /\ versions = 1
    /\ overrides_file \in FROM_BLOCKED_STORED
    /\ req = Idle
    /\ resp = Idle

NextFromBlocked == \E request \in FromBlockedRequests : OverridesFromBlocked(request)

SpecFromBlocked == InitFromBlocked /\ [][NextFromBlocked]_vars


-----------------------------------------------------------------------------
(* Properties of the stored overrides, under SpecFromBlocked               *)

NoDuplicate(seq) == \A i, j \in 1..Len(seq) : seq[i] = seq[j] => i = j

\* one entry per skill, compared trimmed and without case; at most 3 proof bullets;
\* no bullet and no target role twice
WellFormedOverrides(overrides) ==
    /\ NoDuplicate([i \in 1..Len(overrides.skills) |->
                       Lower(Strip(overrides.skills[i].skill))])
    /\ \A i \in 1..Len(overrides.skills) :
           /\ Len(overrides.skills[i].proof_bullets) <= 3
           /\ NoDuplicate(overrides.skills[i].proof_bullets)
           /\ NoDuplicate(overrides.skills[i].target_roles)

\* the target roles of the entry for the skill key, none when there is no entry
TargetRolesOf(overrides, key) ==
    UNION {Range(overrides.skills[i].target_roles) :
              i \in {j \in 1..Len(overrides.skills) :
                        Lower(Strip(overrides.skills[j].skill)) = key}}

\* every target role that after has and before had not is a role of the state
AddedRolesExist(before, after, state) ==
    \A key \in override_skills(after) :
        \A role_id \in TargetRolesOf(after, key) \ TargetRolesOf(before, key) :
            role_exists(state, role_id)

\* an item of the request names an unknown role or carries a proof bullet of fewer
\* than 5 characters after sanitization
BadItem(request, state) ==
    \E i \in 1..Len(request.items) :
        \/ ~role_exists(state, request.items[i].role_id)
        \/ Len(clean_bullet(request.items[i].proof_bullet)) < 5

\* C28: after any sequence of overrides-from-blocked requests, starting from stored
\* overrides of the same form, the stored set has at most one entry per skill
\* (trimmed, case-insensitive), every entry has at most 3 proof_bullets with no
\* duplicate bullet and no duplicate target role, and every target role a request
\* added existed in the resume at that time; a request with an item that names an
\* unknown role or whose proof bullet is shorter than 5 characters after
\* sanitization fails with a validation error and stores nothing, not even the
\* items before the bad one.
C28_StoredOverrides ==
    [][(resp'.op = "overrides_from_blocked" /\ req'.resume_id = RESUME_ID) =>
          /\ WellFormedOverrides(overrides_file')
          /\ AddedRolesExist(overrides_file, overrides_file', resume)
          /\ BadItem(req', resume) =>
                 /\ resp'.status = 422
                 /\ overrides_file' = overrides_file]_vars

\* the entry for SQL holds three proof bullets after a fourth was offered, and a
\* request whose second item was bad has just been refused
C28_Witness ==
    /\ resp.op = "overrides_from_blocked"
    /\ resp.status = 422
    /\ Len(req.items) = 2
    /\ ~BadItem([items |-> <<req.items[1]>>], resume)
    /\ \E i \in 1..Len(overrides_file.skills) :
           /\ Len(overrides_file.skills[i].proof_bullets) = 3
           /\ Len(overrides_file.skills[i].target_roles) = 2



-----------------------------------------------------------------------------
(* Appending a version in apply-patches, under Spec                        *)

\* the batch of the request passes validate_patches_truth_mode against the stored
\* state and overrides
BatchValid(request) ==
    validate_patches_truth_mode(request.patches, resume, overrides_file,
                                request.truth_mode) = ""

\* apply_patches_to_state applies every patch of the batch to the stored state
BatchApplies(request) == apply_patches_to_state(resume, request.patches).error = ""

\* the request was for the stored resume and has just been answered
PatchesAnswered(request, response) ==
    response.op = "apply_patches" /\ request.resume_id = RESUME_ID

\* a version is appended only for a valid batch that applied whole, and it holds the
\* state with every patch applied; otherwise the answer is 422 and what is stored
\* stays as it was
AppendOnlyWhole(request, response) ==
    IF BatchValid(request) /\ BatchApplies(request)
    THEN /\ versions' = versions + 1
         /\ resume' = apply_patches_to_state(resume, request.patches).state
    ELSE /\ response.status = 422
         /\ UNCHANGED <<resume, versions>>

\* C29: apply-patches appends a new resume version only after truth validation has
\* passed and every patch of the batch has been applied: on a validation, index,
\* role or policy error it answers 422 without appending, so the stored latest
\* version is unchanged and the partially mutated in-memory state is discarded.
C29_AppendAfterAll ==
    [][PatchesAnswered(req', resp') => AppendOnlyWhole(req', resp')]_vars

\* the second patch of a batch was out of range: the answer is 422 and the stored
\* state does not hold the bullet of the first patch
C29_Witness ==
    /\ resp.op = "apply_patches"
    /\ resp.status = 422
    /\ resp.detail = "bullet_index out of range"
    /\ req.patches = <<ExperienceInsertPython, ExperienceReplaceOutOfRange>>
    /\ versions = 1
    /\ resume = initial



-----------------------------------------------------------------------------
(* Two apply-patches requests in flight for the same resume                *)

\* In this specification req is the pair of requests in flight and resp the pair of
\* their handlers: pc is the position of the handler, state its in-memory copy of
\* the resume, loaded the number of the version it read.

RACE_REQUESTS ==
    {[op |-> "apply_patches", resume_id |-> RESUME_ID, patches |-> batch,
      truth_mode |-> mode, export_docx |-> FALSE] :
        batch \in APPLY_BATCHES \cup {<<ExperienceInsertPython>>},
        mode \in {"off", "strict"}}

Handler(pc, state, loaded, status, detail, version) ==
    [pc |-> pc, state |-> state, loaded |-> loaded, status |-> status,
     detail |-> detail, version |-> version]

\* state, _ = _load_state(resume_id); overrides = load_overrides(...)
LoadLatest(i) ==
    /\ resp[i].pc = "start"
    /\ resp' = [resp EXCEPT ![i] = Handler("loaded", resume, versions, 0, "", 0)]
    /\ UNCHANGED <<resume, initial, versions, overrides_file, req>>

\* the handler after validate_patches_truth_mode (message) and
\* apply_patches_to_state (outcome) on its own copy of the state
validated_and_applied(handler, message, outcome) ==
    IF message # "" THEN [handler EXCEPT !.pc = "done", !.status = 422, !.detail = message]
    ELSE IF outcome.error # ""
    THEN [handler EXCEPT !.pc = "done", !.status = 422, !.detail = outcome.error,
                         !.state = outcome.state]
    ELSE [handler EXCEPT !.pc = "applied", !.state = outcome.state]

\* the two try blocks of the handler, on the copy it loaded
ValidateAndApply(i) ==
    /\ resp[i].pc = "loaded"
    /\ resp' = [resp EXCEPT ![i] =
                   validated_and_applied(
                       @,
                       validate_patches_truth_mode(req[i].patches, @.state, overrides_file,
                                                   req[i].truth_mode),
                       apply_patches_to_state(@.state, req[i].patches))]
    /\ UNCHANGED <<resume, initial, versions, overrides_file, req>>

\* an append that is refused when the copy was loaded from an older version
AppendVersion_if_latest(i) ==
    /\ resp[i].pc = "applied"
    /\ IF resp[i].loaded = versions
       THEN /\ resume' = resp[i].state
            /\ versions' = versions + 1
            /\ resp' = [resp EXCEPT ![i] = [@ EXCEPT !.pc = "done", !.status = 200,
                                                      !.version = versions + 1]]
       ELSE /\ resp' = [resp EXCEPT ![i] = [@ EXCEPT !.pc = "done", !.status = 409]]
            /\ UNCHANGED <<resume, versions>>
    /\ UNCHANGED <<initial, overrides_file, req>>

\* append_resume_version with the copy of the handler: it becomes the latest version,
\* whatever version the copy was loaded from
AppendVersion(i) ==
    /\ resp[i].pc = "applied"
    /\ resume' = resp[i].state
    /\ versions' = versions + 1
    /\ resp' = [resp EXCEPT ![i] = [@ EXCEPT !.pc = "done", !.status = 200,
                                              !.version = versions + 1]]
    /\ UNCHANGED <<initial, overrides_file, req>>

InitRace ==
    /\ resume \in APPLY_RESUMES
    /\ initial = resume
    /\ versions = 1
    /\ overrides_file = NoOverrides
    /\ req \in [1..2 -> RACE_REQUESTS]
    /\ resp = [i \in 1..2 |-> Handler("start", resume, 0, 0, "", 0)]

NextRace ==
    \/ \E i \in 1..2 : LoadLatest(i)
    \/ \E i \in 1..2 : ValidateAndApply(i)
    \/ \E i \in 1..2 : AppendVersion(i)

SpecRace == InitRace /\ [][NextRace]_vars


-----------------------------------------------------------------------------
(* The lost update, under SpecRace                                         *)

\* both handlers have answered and both had loaded the same version
BothLoadedSame == resp[1].pc = "done" /\ resp[2].pc = "done" /\ resp[1].loaded = resp[2].loaded

\* the batch of request i is valid and applies whole on the version first stored
GoodAlone(i) ==
    /\ validate_patches_truth_mode(req[i].patches, initial, overrides_file,
                                   req[i].truth_mode) = ""
    /\ apply_patches_to_state(initial, req[i].patches).error = ""

\* the latest stored version is the loaded version with the batch of request i
\* applied and nothing of the other request
OnlyPatchesOf(i) == resume = apply_patches_to_state(initial, req[i].patches).state

\* C30: apply-patches runs load-latest-state, validate, apply, append-version with no
\* lock and no version comparison: when two requests for the same resume interleave
\* so that both load the same version before either appends, both succeed, and the
\* latest stored version holds only the patches of the request that appended last;
\* the patches of the other request are lost from it.
C30_LostUpdate ==
    (BothLoadedSame /\ GoodAlone(1) /\ GoodAlone(2)) =>
        /\ resp[1].status = 200 /\ resp[2].status = 200
        /\ versions = 3
        /\ \A i \in 1..2 : resp[i].version = 3 => OnlyPatchesOf(i)

\* both requests loaded version 1 and were answered 200; the one that inserted a
\* technical-skills line appended first and its line is not in the latest version
C30_Witness ==
    /\ BothLoadedSame
    /\ req[1].patches = <<SkillsInsertKubernetes>>
    /\ req[2].patches = <<ExperienceInsertPython>>
    /\ resp[1].status = 200 /\ resp[1].version = 2
    /\ resp[2].status = 200 /\ resp[2].version = 3
    /\ ~InSeq("Exposure to Kubernetes", resume.technical_skills)

=============================================================================
